---- MODULE Spec2Model ----
(***************************************************************************)
(* FraudShield real-time fraud risk scoring: the model ensemble of the     *)
(* ml-service (ensemble.py), the fraud detector of the backend ml-service  *)
(* (fraud_detector.py) and the fraud detection engine with its assessment  *)
(* cache (fraud_engine.py).                                                *)
(*                                                                         *)
(* Numbers: a probability or a confidence is an integer number of          *)
(* thousandths (One = 1.0), a weight an integer number of hundredths, and  *)
(* a quotient of two floats is the exact fraction <<n, d>>, d > 0, of      *)
(* thousandths, compared by cross-multiplication.  np.std is the only      *)
(* irrational operation; it is rounded down to a thousandth.               *)
(***************************************************************************)
EXTENDS Integers, Sequences, FiniteSets, TLC

VARIABLES
    service,             \* the service this process runs
    \* ---- EnsembleClassifier (ensemble.py) ----
    is_ready,            \* self.is_ready
    model_weights,       \* self.model_weights (settings.ENSEMBLE_WEIGHTS)
    prediction_count,    \* self.prediction_count
    ens_result,          \* what the last call of predict() produced
    \* ---- FraudDetector (fraud_detector.py) ----
    ENSEMBLE_WEIGHTS,    \* app.ENSEMBLE_WEIGHTS
    det_prediction_count,\* self.prediction_count
    det,                 \* the assessment assess_fraud_risk() is working on
    \* ---- FraudDetectionEngine (fraud_engine.py) ----
    fraud_thresholds,    \* settings.fraud_thresholds
    dec,                 \* two evaluations of the decision functions
    is_initialized,      \* self.is_initialized
    ml_client,           \* self.ml_client: "none" or "client"
    startup,             \* the collaborators initialize() has initialized, and what it raised
    assessment_count,    \* self.assessment_count
    total_processing_time, \* self.total_processing_time, in seconds
    cache,               \* the cache service's store: key -> entry
    now,                 \* the clock, in seconds
    reqs,                \* the calls of assess_transaction()
    calls,               \* how many calls were made
    computed,            \* log of the freshly computed assessments
    \* ---- assess_batch_transactions (fraud_assessment.py) ----
    batch,               \* the batch request being served
    \* ---- FraudDetector: the feature building (fraud_detector.py) ----
    feat,                \* the features being built for one transaction
    \* ---- the explanations of the engine and of the detector ----
    expl                 \* the risk factors and actions of one assessment

ensembleVars == <<is_ready, model_weights, prediction_count, ens_result>>
detectorVars == <<ENSEMBLE_WEIGHTS, det_prediction_count, det>>

decisionVars == <<dec>>
engineVars == <<is_initialized, ml_client, startup, assessment_count,
                total_processing_time, cache, now, reqs, calls, computed>>

batchVars == <<batch>>

functionVars == <<feat, expl>>

vars == <<service, ensembleVars, detectorVars, fraud_thresholds, decisionVars,
          engineVars, batchVars, functionVars>>

(***************************************************************************)
(* Fixed-point numbers and exact fractions for the float expressions.      *)
(***************************************************************************)
One == 1000

Abs(x) == IF x < 0 THEN -x ELSE x
Max(a, b) == IF a < b THEN b ELSE a
Min(a, b) == IF b < a THEN b ELSE a

\* fractions <<n, d>> with d > 0
QLe(a, b) == a[1] * b[2] <= b[1] * a[2]
QLt(a, b) == a[1] * b[2] < b[1] * a[2]
QEq(a, b) == a[1] * b[2] = b[1] * a[2]
\* max(lo, min(hi, q)) for numbers lo <= hi
QClamp(lo, hi, q) ==
    IF q[1] < lo * q[2] THEN <<lo, 1>>
    ELSE IF q[1] > hi * q[2] THEN <<hi, 1>>
    ELSE q

RECURSIVE Sum(_, _)
Sum(f, names) ==
    IF names = <<>> THEN 0 ELSE f[Head(names)] + Sum(f, Tail(names))

\* the largest k in lo..hi with k * k <= x (lo * lo <= x)
RECURSIVE ISqrt(_, _, _)
ISqrt(x, lo, hi) ==
    IF lo >= hi THEN lo
    ELSE LET mid == (lo + hi + 1) \div 2
         IN  IF mid * mid <= x THEN ISqrt(x, mid, hi) ELSE ISqrt(x, lo, mid - 1)

\* np.std (population standard deviation) of thousandths, rounded down to
\* a thousandth: sqrt(n * sum(p^2) - sum(p)^2) / n
NpStd(f, names) ==
    LET n   == Len(names)
        s   == Sum(f, names)
        sq  == Sum([m \in DOMAIN f |-> f[m] * f[m]], names)
    IN  ISqrt(n * sq - s * s, 0, n * One) \div n

(***************************************************************************)
(* EnsembleClassifier, services/ml-service/ml_service/models/ensemble.py   *)
(***************************************************************************)
\* self.models, in the insertion order of _initialize_models
Models == <<"random_forest", "xgboost", "neural_network", "isolation_forest">>
ModelNames == {Models[i] : i \in 1..Len(Models)}

\* the keys of a dict, in insertion order
Keys(d) == SelectSeq(Models, LAMBDA m : m \in DOMAIN d)

\* dict.get(key, default)
Get(d, key, default) == IF key \in DOMAIN d THEN d[key] ELSE default

\* a dict over the four models
ModelDict(rf, xgb, nn, iso) ==
    [m \in ModelNames |->
        CASE m = "random_forest"    -> rf
          [] m = "xgboost"          -> xgb
          [] m = "neural_network"   -> nn
          [] m = "isolation_forest" -> iso]

\* settings.ENSEMBLE_WEIGHTS in hundredths: the two shipped weight sets,
\* weights that do not sum to 1, weights that are all zero, and a
\* configuration without an entry for two of the models
WeightConfigs ==
    { ModelDict(30, 40, 20, 10),
      ModelDict(30, 35, 25, 10),
      ModelDict(200, 100, 50, 50),
      ModelDict(0, 0, 0, 0),
      [m \in {"random_forest", "xgboost"} |->
          IF m = "random_forest" THEN 60 ELSE 40] }

\* What one model does on one feature vector: it raises (ok = FALSE: an
\* exception of the scaler or of the model), or it returns predict_proba's
\* row `proba` (a classifier) or decision_function's value `score` (the
\* isolation forest).
ProbLevels == {0, 500, 1000}
ClassifierOutcomes ==
    {[ok |-> FALSE, proba |-> <<>>, score |-> 0]}
    \cup {[ok |-> TRUE, proba |-> <<One - p, p>>, score |-> 0] : p \in ProbLevels}
    \cup {[ok |-> TRUE, proba |-> <<One>>, score |-> 0]}
RawAnomalyLevels == {-1000, -500, 0, 500, 1000}
IsolationOutcomes ==
    {[ok |-> FALSE, proba |-> <<>>, score |-> 0]}
    \cup {[ok |-> TRUE, proba |-> <<>>, score |-> a] : a \in RawAnomalyLevels}

RECURSIVE SeqMax(_)
SeqMax(s) == IF Len(s) = 1 THEN s[1] ELSE Max(s[1], SeqMax(Tail(s)))
RECURSIVE SeqMin(_)
SeqMin(s) == IF Len(s) = 1 THEN s[1] ELSE Min(s[1], SeqMin(Tail(s)))

\* the default a failed model leaves: 0.5 and 0.1 (ensemble.py 240-243)
FailedModelDefault == [prob |-> 500, conf |-> 100]

\* a remapping of the decision value that rises with it
ModelPredictionRisingInScore(model_name, out) ==
    IF ~out.ok THEN FailedModelDefault
    ELSE IF model_name = "isolation_forest"
    THEN [prob |-> Max(0, Min(One, (One + out.score) \div 2)),
          conf |-> Abs(out.score)]
    ELSE [prob |-> IF Len(out.proba) > 1 THEN out.proba[2] ELSE out.proba[1],
          conf |-> SeqMax(out.proba) - SeqMin(out.proba)]

\* one turn of predict()'s loop over self.models (ensemble.py 212-243);
\* the raw anomaly levels are even, so the halving is exact
ModelPrediction(model_name, out) ==
    IF ~out.ok THEN FailedModelDefault
    ELSE IF model_name = "isolation_forest"
    THEN [prob |-> Max(0, Min(One, (One - out.score) \div 2)),
          conf |-> Abs(out.score)]
    ELSE [prob |-> IF Len(out.proba) > 1 THEN out.proba[2] ELSE out.proba[1],
          conf |-> SeqMax(out.proba) - SeqMin(out.proba)]

\* self.model_weights.get(model_name, 0.1), in hundredths
DefaultWeightEnsemble == 10

_calculate_ensemble_prediction(individual_predictions, weights) ==
    LET names == Keys(individual_predictions)
        w == [m \in DOMAIN individual_predictions |->
                  Get(weights, m, DefaultWeightEnsemble)]
        weighted_sum ==
            Sum([m \in DOMAIN individual_predictions |->
                     individual_predictions[m] * w[m]], names)
        total_weight == Sum(w, names)
        ensemble_prediction ==
            IF total_weight > 0
            THEN <<weighted_sum, total_weight>>
            ELSE <<Sum(individual_predictions, names), Len(names)>>
    IN  QClamp(0, One, ensemble_prediction)

\* the confidence without its floor of 0.1
ConfidenceWithoutFloor(individual_predictions, model_confidences, weights) ==
    LET names == Keys(individual_predictions)
        w == [m \in DOMAIN individual_predictions |->
                  Get(weights, m, DefaultWeightEnsemble)]
        weighted_confidence ==
            Sum([m \in DOMAIN individual_predictions |->
                     Get(model_confidences, m, 100) * w[m]], names)
        total_weight == Sum(w, names)
        ensemble_confidence ==
            IF total_weight > 0
            THEN <<weighted_confidence, total_weight>>
            ELSE <<Sum(model_confidences, Keys(model_confidences)),
                   Len(Keys(model_confidences))>>
        agreement_factor ==
            Max(100, One - NpStd(individual_predictions, names))
    IN  QClamp(0, One,
               <<ensemble_confidence[1] * agreement_factor,
                 ensemble_confidence[2] * One>>)

_calculate_ensemble_confidence(individual_predictions, model_confidences, weights) ==
    LET names == Keys(individual_predictions)
        w == [m \in DOMAIN individual_predictions |->
                  Get(weights, m, DefaultWeightEnsemble)]
        weighted_confidence ==
            Sum([m \in DOMAIN individual_predictions |->
                     Get(model_confidences, m, 100) * w[m]], names)
        total_weight == Sum(w, names)
        ensemble_confidence ==
            IF total_weight > 0
            THEN <<weighted_confidence, total_weight>>
            ELSE <<Sum(model_confidences, Keys(model_confidences)),
                   Len(Keys(model_confidences))>>
        prediction_std == NpStd(individual_predictions, names)
        agreement_factor == Max(100, One - prediction_std)
    IN  QClamp(100, One,
               <<ensemble_confidence[1] * agreement_factor,
                 ensemble_confidence[2] * One>>)

NoEnsembleResult ==
    [status |-> "none", probability |-> <<0, 1>>, confidence |-> <<0, 1>>,
     individual_predictions |-> <<>>, model_confidences |-> <<>>,
     outcomes |-> <<>>]

EnsembleIdle ==
    /\ is_ready = FALSE
    /\ model_weights = ModelDict(30, 40, 20, 10)
    /\ prediction_count = 0
    /\ ens_result = NoEnsembleResult

EnsembleInit ==
    /\ is_ready = FALSE
    /\ model_weights \in WeightConfigs
    /\ prediction_count = 0
    /\ ens_result = NoEnsembleResult

\* initialize(): is_ready is set after the models were initialized, loaded
\* and validated; a failure of one of these steps re-raises and leaves it
EnsembleInitialize ==
    /\ service = "ml-service"
    /\ ~is_ready
    /\ \E succeeds \in BOOLEAN : is_ready' = succeeds
    /\ UNCHANGED <<model_weights, prediction_count, ens_result>>
    /\ UNCHANGED <<service, batchVars, functionVars, detectorVars, fraud_thresholds, decisionVars, engineVars>>

MaxPredictions == 1

\* predict() on a classifier that is not ready raises RuntimeError
EnsemblePredictNotReady ==
    /\ service = "ml-service"
    /\ ~is_ready
    /\ ens_result.status # "error"
    /\ ens_result' = [NoEnsembleResult EXCEPT !.status = "error"]
    /\ UNCHANGED <<is_ready, model_weights, prediction_count>>
    /\ UNCHANGED <<service, batchVars, functionVars, detectorVars, fraud_thresholds, decisionVars, engineVars>>

\* predict(features): the loop over the models, the ensemble prediction and
\* confidence, and _update_metrics
EnsemblePredict ==
    /\ is_ready
    /\ prediction_count < MaxPredictions
    /\ \E rf \in ClassifierOutcomes, xgb \in ClassifierOutcomes,
          nn \in ClassifierOutcomes, iso \in IsolationOutcomes :
          LET outs == ModelDict(rf, xgb, nn, iso)
              per == [m \in ModelNames |-> ModelPrediction(m, outs[m])]
              individual_predictions == [m \in ModelNames |-> per[m].prob]
              model_confidences == [m \in ModelNames |-> per[m].conf]
          IN  ens_result' =
                  [status |-> "ok",
                   probability |->
                       _calculate_ensemble_prediction(individual_predictions, model_weights),
                   confidence |->
                       _calculate_ensemble_confidence(individual_predictions,
                                                      model_confidences, model_weights),
                   individual_predictions |-> individual_predictions,
                   model_confidences |-> model_confidences,
                   outcomes |-> outs]
    /\ prediction_count' = prediction_count + 1
    /\ UNCHANGED <<is_ready, model_weights>>
    /\ UNCHANGED <<service, batchVars, functionVars, detectorVars, fraud_thresholds, decisionVars, engineVars>>

EnsembleNext ==
    \/ EnsembleInitialize
    \/ EnsemblePredictNotReady
    \/ EnsemblePredict

(***************************************************************************)
(* FraudDetector, backend/ml-service/app/ml/fraud_detector.py              *)
(*                                                                         *)
(* A score on the 0..100 axis is a fraction <<n, d>> of points, d > 0.     *)
(***************************************************************************)
\* app.DECISION_THRESHOLDS and app.RISK_LEVELS (backend/ml-service/app/__init__.py)
DECISION_THRESHOLDS == [approve |-> 30, review |-> 70, decline |-> 85]
RiskLevelNames == <<"low", "medium", "high", "critical">>
RISK_LEVELS ==
    [low |-> <<0, 30>>, medium |-> <<30, 70>>, high |-> <<70, 85>>,
     critical |-> <<85, 100>>]

\* the classifiers _run_ensemble_models asks the model manager for, in order
DetectorModels == <<"random_forest", "xgboost", "neural_network">>
DetectorModelNames == {DetectorModels[i] : i \in 1..Len(DetectorModels)}

\* ENSEMBLE_WEIGHTS.get(model_name, 0.25), in hundredths
DefaultWeightDetector == 25

\* the weighted sum that is not divided by the total weight
ProbabilityNotNormalized(model_probabilities, weights) ==
    IF DOMAIN model_probabilities = {} THEN <<100, 1>>
    ELSE <<Sum([m \in DOMAIN model_probabilities |->
                    Get(weights, m, DefaultWeightDetector) * model_probabilities[m]],
               Keys(model_probabilities)),
           100>>

_calculate_ensemble_probability(model_probabilities, weights) ==
    IF DOMAIN model_probabilities = {} THEN <<100, 1>>
    ELSE
    LET names == Keys(model_probabilities)
        w == [m \in DOMAIN model_probabilities |->
                  Get(weights, m, DefaultWeightDetector)]
        weighted_sum ==
            Sum([m \in DOMAIN model_probabilities |->
                     w[m] * model_probabilities[m]], names)
        total_weight == Sum(w, names)
    IN  IF total_weight = 0
        THEN <<Sum(model_probabilities, names), Len(names)>>
        ELSE <<weighted_sum, total_weight>>

\* What the model manager does for one classifier: the model is not
\* available, is_model_available() or predict() raises, or predict()
\* returns a probability.
ManagerOutcomes ==
    {[kind |-> "unavailable", probability |-> 0],
     [kind |-> "raises", probability |-> 0]}
    \cup {[kind |-> "ok", probability |-> p] : p \in ProbLevels}

\* the safe default of _run_ensemble_models (fraud_detector.py 320-328)
EnsembleModelsDefault ==
    [individual_scores |-> <<>>, ensemble_prediction |-> 0,
     ensemble_probability |-> <<100, 1>>]

\* the models are asked in order; the first one that raises ends the
\* try block, whatever the models before it returned
RECURSIVE CollectProbabilities(_, _)
CollectProbabilities(outs, names) ==
    IF names = <<>> THEN [raised |-> FALSE, probs |-> <<>>]
    ELSE LET m == Head(names)
             rest == CollectProbabilities(outs, Tail(names))
         IN  IF outs[m].kind = "raises" THEN [raised |-> TRUE, probs |-> <<>>]
             ELSE IF rest.raised THEN rest
             ELSE IF outs[m].kind = "unavailable" THEN rest
             ELSE [raised |-> FALSE,
                   probs |-> [k \in DOMAIN rest.probs \cup {m} |->
                                 IF k = m THEN outs[m].probability ELSE rest.probs[k]]]

_run_ensemble_models(outs, weights) ==
    LET c == CollectProbabilities(outs, DetectorModels)
    IN  IF c.raised THEN EnsembleModelsDefault
        ELSE LET ensemble_probability ==
                     _calculate_ensemble_probability(c.probs, weights)
             IN  [individual_scores |-> c.probs,
                  ensemble_prediction |->
                      IF QLt(<<500, 1>>, ensemble_probability) THEN 1 ELSE 0,
                  ensemble_probability |-> ensemble_probability]

\* _detect_anomalies: the raw decision value (thousandths) on the 0..100
\* scale, or the safe default 25 when the isolation forest raises
RawDecisionLevels == {-700, -250, 0, 500, 700}
AnomalyOutcomes ==
    {[ok |-> FALSE, raw |-> 0]} \cup {[ok |-> TRUE, raw |-> r] : r \in RawDecisionLevels}
_detect_anomalies(out) ==
    IF out.ok THEN Max(0, Min(100, (500 - out.raw) \div 10)) ELSE 25

\* _analyze_behavioral_patterns
BehavioralDefault(indicators, is_new_customer) ==
    [composite_score |-> 50, anomaly_indicators |-> indicators,
     is_new_customer |-> is_new_customer]
BehaviorScores == {0, 50, 70, 71, 100}
AnalyzerOutcomes ==
    {[ok |-> FALSE, composite_score |-> 0, anomaly_indicators |-> <<>>]}
    \cup {[ok |-> TRUE, composite_score |-> b, anomaly_indicators |-> i] :
             b \in BehaviorScores, i \in {<<>>, <<"velocity_spike">>}}
_analyze_behavioral_patterns(has_customer_id, out) ==
    IF ~has_customer_id THEN BehavioralDefault(<<>>, TRUE)
    ELSE IF out.ok
    THEN [composite_score |-> out.composite_score,
          anomaly_indicators |-> out.anomaly_indicators, is_new_customer |-> FALSE]
    ELSE BehavioralDefault(<<"analysis_failed">>, FALSE)

\* RiskCalibrator.calibrate_risk: it returns a final score of 0..100 and a
\* confidence of 0..1, or it raises
CalibratedScores == {0, 29, 30, 50, 69, 70, 75, 84, 85, 99, 100}
CalibratorOutcomes ==
    {[ok |-> FALSE, final_score |-> <<0, 1>>, confidence |-> 0]}
    \cup {[ok |-> TRUE, final_score |-> <<x, 1>>, confidence |-> c] :
             x \in CalibratedScores, c \in {0, 900}}

\* ensemble_probability * 40 + composite_score * 0.4 + anomaly_score * 0.2,
\* as a fraction of points
FallbackRawScore(ensemble_probability, composite_score, anomaly_score) ==
    <<2 * ensemble_probability[1]
          + (20 * composite_score + 10 * anomaly_score) * ensemble_probability[2],
      50 * ensemble_probability[2]>>

_calibrate_risk_score(out, ml_predictions, behavioral_result, anomaly_score) ==
    IF out.ok
    THEN [final_score |-> out.final_score, confidence |-> out.confidence,
          calibration_factors |-> <<>>]
    ELSE [final_score |->
              QClamp(0, 100,
                     FallbackRawScore(ml_predictions.ensemble_probability,
                                      behavioral_result.composite_score,
                                      anomaly_score)),
          confidence |-> 700,
          calibration_factors |-> <<"fallback_calculation">>]

\* the risk-level loop of _generate_decision: the first band with
\* min_score <= risk_score < max_score, and 'low' when there is none
RECURSIVE RiskLevelLoop(_, _)
RiskLevelLoop(risk_score, levels) ==
    IF levels = <<>> THEN "low"
    ELSE LET band == RISK_LEVELS[Head(levels)]
         IN  IF QLe(<<band[1], 1>>, risk_score) /\ QLt(risk_score, <<band[2], 1>>)
             THEN Head(levels)
             ELSE RiskLevelLoop(risk_score, Tail(levels))

_generate_decision(risk_score) ==
    [decision |->
         IF QLt(risk_score, <<DECISION_THRESHOLDS.approve, 1>>) THEN "approve"
         ELSE IF QLt(risk_score, <<DECISION_THRESHOLDS.review, 1>>) THEN "review"
         ELSE "decline",
     risk_level |-> RiskLevelLoop(risk_score, RiskLevelNames)]

DetectorWeightConfigs ==
    { ModelDict(30, 35, 25, 10),
      ModelDict(200, 100, 50, 50),
      ModelDict(0, 0, 0, 0),
      [m \in {"random_forest", "isolation_forest"} |->
          IF m = "random_forest" THEN 30 ELSE 10] }

NoAssessment ==
    [pc |-> "idle", has_customer_id |-> FALSE,
     behavioral_result |-> BehavioralDefault(<<>>, FALSE),
     manager |-> <<>>, ml_predictions |-> EnsembleModelsDefault,
     anomaly |-> [ok |-> FALSE, raw |-> 0],
     anomaly_score |-> 0, calibrator_ok |-> TRUE,
     risk_assessment |-> [final_score |-> <<0, 1>>, confidence |-> 0,
                          calibration_factors |-> <<>>],
     decision |-> "", risk_level |-> ""]

DetectorIdle ==
    /\ ENSEMBLE_WEIGHTS = ModelDict(30, 35, 25, 10)
    /\ det_prediction_count = 0
    /\ det = NoAssessment

DetectorInit ==
    /\ ENSEMBLE_WEIGHTS \in DetectorWeightConfigs
    /\ det_prediction_count = 0
    /\ det = NoAssessment

MaxDetectorPredictions == 1

\* assess_fraud_risk(transaction_data) is called
DetectorStart ==
    /\ service = "backend-ml-service"
    /\ det.pc \in {"idle", "done", "failed"}
    /\ det_prediction_count < MaxDetectorPredictions
    /\ \E has_customer_id \in BOOLEAN :
          det' = [NoAssessment EXCEPT !.pc = "features",
                                      !.has_customer_id = has_customer_id]
    /\ UNCHANGED <<ENSEMBLE_WEIGHTS, det_prediction_count>>
    /\ UNCHANGED <<service, batchVars, functionVars, ensembleVars, fraud_thresholds, decisionVars, engineVars>>

\* Step 1, _extract_comprehensive_features: an exception of the feature
\* store is logged and raised again, and assess_fraud_risk raises
DetectorExtractFeatures ==
    /\ det.pc = "features"
    /\ \E ok \in BOOLEAN :
          det' = [det EXCEPT !.pc = IF ok THEN "behavioral" ELSE "failed"]
    /\ UNCHANGED <<ENSEMBLE_WEIGHTS, det_prediction_count>>
    /\ UNCHANGED <<service, batchVars, functionVars, ensembleVars, fraud_thresholds, decisionVars, engineVars>>

\* Step 2, _analyze_behavioral_patterns
DetectorBehavioral ==
    /\ det.pc = "behavioral"
    /\ \E out \in AnalyzerOutcomes :
          det' = [det EXCEPT
                     !.pc = "ensemble",
                     !.behavioral_result =
                         _analyze_behavioral_patterns(det.has_customer_id, out)]
    /\ UNCHANGED <<ENSEMBLE_WEIGHTS, det_prediction_count>>
    /\ UNCHANGED <<service, batchVars, functionVars, ensembleVars, fraud_thresholds, decisionVars, engineVars>>

\* Step 3, _run_ensemble_models
DetectorRunEnsemble ==
    /\ det.pc = "ensemble"
    /\ \E outs \in [DetectorModelNames -> ManagerOutcomes] :
          det' = [det EXCEPT
                     !.pc = "anomaly",
                     !.manager = outs,
                     !.ml_predictions = _run_ensemble_models(outs, ENSEMBLE_WEIGHTS)]
    /\ UNCHANGED <<ENSEMBLE_WEIGHTS, det_prediction_count>>
    /\ UNCHANGED <<service, batchVars, functionVars, ensembleVars, fraud_thresholds, decisionVars, engineVars>>

\* Step 4, _detect_anomalies
DetectorAnomalies ==
    /\ det.pc = "anomaly"
    /\ \E out \in AnomalyOutcomes :
          det' = [det EXCEPT !.pc = "calibrate",
                             !.anomaly = out,
                             !.anomaly_score = _detect_anomalies(out)]
    /\ UNCHANGED <<ENSEMBLE_WEIGHTS, det_prediction_count>>
    /\ UNCHANGED <<service, batchVars, functionVars, ensembleVars, fraud_thresholds, decisionVars, engineVars>>

\* Steps 5 to 7 and the result: _calibrate_risk_score, _generate_decision,
\* the FraudAssessmentResult and _update_performance_metrics
DetectorCalibrateAndDecide ==
    /\ det.pc = "calibrate"
    /\ \E out \in CalibratorOutcomes :
          LET risk_assessment ==
                  _calibrate_risk_score(out, det.ml_predictions,
                                        det.behavioral_result, det.anomaly_score)
              decision_result == _generate_decision(risk_assessment.final_score)
          IN  det' = [det EXCEPT
                         !.pc = "done",
                         !.calibrator_ok = out.ok,
                         !.risk_assessment = risk_assessment,
                         !.decision = decision_result.decision,
                         !.risk_level = decision_result.risk_level]
    /\ det_prediction_count' = det_prediction_count + 1
    /\ UNCHANGED ENSEMBLE_WEIGHTS
    /\ UNCHANGED <<service, batchVars, functionVars, ensembleVars, fraud_thresholds, decisionVars, engineVars>>

DetectorNext ==
    \/ DetectorStart
    \/ DetectorExtractFeatures
    \/ DetectorBehavioral
    \/ DetectorRunEnsemble
    \/ DetectorAnomalies
    \/ DetectorCalibrateAndDecide

(***************************************************************************)
(* FraudDetector: the feature building,                                    *)
(* backend/ml-service/app/ml/fraud_detector.py 191-248 and 330-348         *)
(*                                                                         *)
(* A feature value is a number of thousandths.                             *)
(***************************************************************************)
\* transaction_data: the fields _calculate_derived_features reads.  A
\* field is well formed or of a type its computation raises on: an amount
\* or a timestamp that is a text, a billing_address that is None, a
\* payment method that is None.
TransactionDatas ==
    [amount : {[kind |-> "number", value |-> a] : a \in {50, 150}}
              \cup {[kind |-> "text", value |-> 0]},
     timestamp : {[kind |-> "epoch", weekday |-> 2, hour |-> 12],
                  [kind |-> "epoch", weekday |-> 5, hour |-> 23],
                  [kind |-> "text", weekday |-> 0, hour |-> 0]},
     addresses : {"absent", "same", "mismatch", "billing_none"},
     payment_method : {"absent", "credit_card", "Gift_Card", "wire", "none"}]

\* np.log1p(amount), rounded to a thousandth
Log1p(amount) == IF amount = 50 THEN 3932 ELSE 5017

\* _get_payment_method_risk: the table, read with payment_method.lower()
_get_payment_method_risk(payment_method) ==
    CASE payment_method \in {"credit_card", "absent"} -> 300
      [] payment_method = "Gift_Card" -> 900
      [] OTHER -> 500

\* the derived features in the order _calculate_derived_features assigns them
DerivedFeatures ==
    <<"amount_log", "amount_zscore", "is_weekend", "is_night",
      "address_country_mismatch", "payment_risk_score">>

\* the statement that assigns feature f raises on this transaction
DerivedRaises(f, td) ==
    CASE f \in {"amount_log", "amount_zscore"} -> td.amount.kind = "text"
      [] f = "is_weekend" -> td.timestamp.kind = "text"
      [] f = "is_night" -> FALSE
      [] f = "address_country_mismatch" -> td.addresses = "billing_none"
      [] f = "payment_risk_score" -> td.payment_method = "none"

\* the value the statement assigns
DerivedValue(f, td) ==
    CASE f = "amount_log" -> Log1p(td.amount.value)
      [] f = "amount_zscore" -> (td.amount.value - 100) * (One \div 50)
      [] f = "is_weekend" -> IF td.timestamp.weekday >= 5 THEN One ELSE 0
      [] f = "is_night" ->
             IF td.timestamp.hour < 6 \/ td.timestamp.hour > 22 THEN One ELSE 0
      [] f = "address_country_mismatch" ->
             IF td.addresses = "mismatch" THEN One ELSE 0
      [] f = "payment_risk_score" -> _get_payment_method_risk(td.payment_method)

\* the statements of the one try block run in order; the first that raises
\* ends the block and `derived` keeps what was assigned before it
RECURSIVE AssignedBefore(_, _)
AssignedBefore(names, td) ==
    IF names = <<>> \/ DerivedRaises(Head(names), td) THEN {}
    ELSE {Head(names)} \cup AssignedBefore(Tail(names), td)

_calculate_derived_features(td) ==
    [f \in AssignedBefore(DerivedFeatures, td) |-> DerivedValue(f, td)]

\* feature_store.extract_features: the base features, or it raises
BaseFeatures == [amount |-> One, hour_of_day |-> One, day_of_week |-> One]

\* features.update(derived)
Update(features, derived) ==
    [f \in DOMAIN features \cup DOMAIN derived |->
        IF f \in DOMAIN derived THEN derived[f] ELSE features[f]]

\* _extract_comprehensive_features
_extract_comprehensive_features(store_ok, td) ==
    IF store_ok
    THEN [ok |-> TRUE, features |-> Update(BaseFeatures, _calculate_derived_features(td))]
    ELSE [ok |-> FALSE, features |-> <<>>]

\* _prepare_feature_array: expected_features and features.get(name, 0.0)
expected_features ==
    <<"amount", "hour_of_day", "day_of_week", "payment_risk_score",
      "address_country_mismatch", "is_weekend", "is_night",
      "amount_log", "amount_zscore">>
_prepare_feature_array(features) ==
    [i \in 1..Len(expected_features) |-> Get(features, expected_features[i], 0)]

NoFeatures ==
    [pc |-> "idle",
     transaction_data |-> [amount |-> [kind |-> "number", value |-> 50],
                           timestamp |-> [kind |-> "epoch", weekday |-> 2, hour |-> 12],
                           addresses |-> "absent", payment_method |-> "absent"],
     features |-> <<>>, feature_array |-> <<>>]


\* assess_fraud_risk, step 1: _extract_comprehensive_features; an exception
\* of the feature store is raised again and ends the assessment
ExtractFeatures ==
    /\ service = "feature-building"
    /\ feat.pc = "idle"
    /\ \E td \in TransactionDatas, store_ok \in BOOLEAN :
          LET extracted == _extract_comprehensive_features(store_ok, td)
          IN  feat' = [feat EXCEPT
                          !.pc = IF extracted.ok THEN "extracted" ELSE "failed",
                          !.transaction_data = td,
                          !.features = extracted.features]
    /\ UNCHANGED expl
    /\ UNCHANGED <<service, batchVars, ensembleVars, detectorVars, fraud_thresholds,
                   decisionVars, engineVars>>

\* step 3 begins: _run_ensemble_models prepares the feature array
PrepareFeatureArray ==
    /\ feat.pc = "extracted"
    /\ feat' = [feat EXCEPT !.pc = "prepared",
                            !.feature_array = _prepare_feature_array(feat.features)]
    /\ UNCHANGED expl
    /\ UNCHANGED <<service, batchVars, ensembleVars, detectorVars, fraud_thresholds,
                   decisionVars, engineVars>>

\* the next transaction
NextTransaction ==
    /\ feat.pc \in {"prepared", "failed"}
    /\ feat' = NoFeatures
    /\ UNCHANGED expl
    /\ UNCHANGED <<service, batchVars, ensembleVars, detectorVars, fraud_thresholds,
                   decisionVars, engineVars>>

FeaturesNext ==
    \/ ExtractFeatures
    \/ PrepareFeatureArray
    \/ NextTransaction

(***************************************************************************)
(* FraudDetectionEngine: the decision functions,                           *)
(* services/fraud-detection/app/services/fraud_engine.py 210-244           *)
(***************************************************************************)
\* settings.fraud_thresholds: FRAUD_THRESHOLD_LOW / MEDIUM / HIGH, each
\* validated to lie in 0..100 and not validated against the others
Thresholds(low, medium, high) == [low |-> low, medium |-> medium, high |-> high]
ThresholdConfigs ==
    { Thresholds(30, 60, 80), Thresholds(60, 30, 80), Thresholds(0, 0, 0),
      Thresholds(100, 100, 100), Thresholds(33, 66, 99) }

\* high-value thresholds that are relaxed (* 1.2) instead of tightened
RelaxedThreshold(t, amount) ==
    IF amount > 1000 THEN <<12 * t, 10>> ELSE <<t, 1>>

\* thresholds[k] * 0.8 for a high-value transaction, as a fraction
AdjustedThreshold(t, amount) ==
    IF amount > 1000 THEN <<8 * t, 10>> ELSE <<t, 1>>

\* the REVIEW branch with its comparison turned round
DecisionWithInvertedReview(risk_score, amount, thresholds) ==
    IF QLe(AdjustedThreshold(thresholds.high, amount), risk_score) THEN "DECLINE"
    ELSE IF QLe(risk_score, AdjustedThreshold(thresholds.medium, amount)) THEN "REVIEW"
    ELSE IF QLe(AdjustedThreshold(thresholds.low, amount), risk_score) THEN "MONITOR"
    ELSE "APPROVE"

_make_decision(risk_score, amount, thresholds) ==
    IF QLe(AdjustedThreshold(thresholds.high, amount), risk_score) THEN "DECLINE"
    ELSE IF QLe(AdjustedThreshold(thresholds.medium, amount), risk_score) THEN "REVIEW"
    ELSE IF QLe(AdjustedThreshold(thresholds.low, amount), risk_score) THEN "MONITOR"
    ELSE "APPROVE"

\* risk levels with bands of their own, apart from the thresholds
RiskLevelOwnBands(risk_score, thresholds) ==
    IF QLe(<<75, 1>>, risk_score) THEN "HIGH"
    ELSE IF QLe(<<25, 1>>, risk_score) THEN "MEDIUM"
    ELSE IF QLe(<<10, 1>>, risk_score) THEN "LOW"
    ELSE "VERY_LOW"

_determine_risk_level(risk_score, thresholds) ==
    IF QLe(<<thresholds.high, 1>>, risk_score) THEN "HIGH"
    ELSE IF QLe(<<thresholds.medium, 1>>, risk_score) THEN "MEDIUM"
    ELSE IF QLe(<<thresholds.low, 1>>, risk_score) THEN "LOW"
    ELSE "VERY_LOW"

\* One evaluation of the decision functions of the engine and of the
\* detector on a risk score and an amount.
Evaluate(score, amount, thresholds) ==
    [risk_score |-> score, amount |-> amount,
     decision |-> _make_decision(<<score, 1>>, amount, thresholds),
     risk_level |-> _determine_risk_level(<<score, 1>>, thresholds),
     det_decision |-> _generate_decision(<<score, 1>>).decision,
     det_risk_level |-> _generate_decision(<<score, 1>>).risk_level]

MaxScore == 100
DecisionScores == 0..MaxScore
DecisionAmounts == {1000, 1001}

NoDecision ==
    [pc |-> "idle", a |-> Evaluate(0, 1000, Thresholds(30, 60, 80)),
     b |-> Evaluate(0, 1000, Thresholds(30, 60, 80))]

DecisionIdle == dec = NoDecision

DecisionInit ==
    /\ fraud_thresholds \in ThresholdConfigs
    /\ dec = NoDecision

\* the decision functions are applied to two scores and two amounts
Decide ==
    /\ dec.pc = "idle"
    /\ \E s1 \in DecisionScores, s2 \in DecisionScores,
          a1 \in DecisionAmounts, a2 \in DecisionAmounts :
          dec' = [pc |-> "decided",
                  a |-> Evaluate(s1, a1, fraud_thresholds),
                  b |-> Evaluate(s2, a2, fraud_thresholds)]
    /\ UNCHANGED <<service, batchVars, functionVars, ensembleVars, detectorVars, fraud_thresholds, engineVars>>

DecideAgain ==
    /\ dec.pc = "decided"
    /\ dec' = NoDecision
    /\ UNCHANGED <<service, batchVars, functionVars, ensembleVars, detectorVars, fraud_thresholds, engineVars>>

DecisionNext ==
    \/ Decide
    \/ DecideAgain

(***************************************************************************)
(* FraudDetectionEngine.assess_transaction and the assessment cache,       *)
(* services/fraud-detection/app/services/fraud_engine.py                   *)
(***************************************************************************)
\* settings.FEATURE_CACHE_TTL, in seconds
FEATURE_CACHE_TTL == 300

\* settings.ENSEMBLE_WEIGHTS of the fraud-detection service, in hundredths
EngineEnsembleWeights == ModelDict(30, 40, 20, 10)

\* TransactionData: the fields the engine reads
Tx(transaction_id, customer_id, amount) ==
    [transaction_id |-> transaction_id, customer_id |-> customer_id,
     amount |-> amount]
Txs == { Tx("t1", "c1", 1000), Tx("t2", "c1", 1006), Tx("t3", "c2", 1000) }
NoTx == Tx("", "", 0)

\* int(amount / 10) * 10 and the f-string of the key
_get_cache_key(transaction_data) ==
    <<"fraud_assessment", transaction_data.customer_id,
      (transaction_data.amount \div 10) * 10>>
CacheKeys == {_get_cache_key(tx) : tx \in Txs}

\* DecisionType and RiskLevel: the enum member and its value in the JSON text
EnumValue(member) ==
    CASE member = "APPROVE"  -> "approve"
      [] member = "MONITOR"  -> "monitor"
      [] member = "REVIEW"   -> "review"
      [] member = "DECLINE"  -> "decline"
      [] member = "VERY_LOW" -> "very_low"
      [] member = "LOW"      -> "low"
      [] member = "MEDIUM"   -> "medium"
      [] member = "HIGH"     -> "high"
      [] member = "CRITICAL" -> "critical"
EnumMembers ==
    {"APPROVE", "MONITOR", "REVIEW", "DECLINE",
     "VERY_LOW", "LOW", "MEDIUM", "HIGH", "CRITICAL"}
EnumMember(value) == CHOOSE member \in EnumMembers : EnumValue(member) = value

\* result.json(): the text the cache holds
Json(result) ==
    [text |-> "json",
     doc |-> [result EXCEPT !.decision = EnumValue(result.decision),
                            !.risk_level = EnumValue(result.risk_level)]]
\* FraudAssessmentResult.parse_raw(cached_data): the result, or an exception
parse_raw(cached_data) ==
    IF cached_data.text = "json"
    THEN [ok |-> TRUE,
          value |-> [cached_data.doc EXCEPT
                        !.decision = EnumMember(cached_data.doc.decision),
                        !.risk_level = EnumMember(cached_data.doc.risk_level)]]
    ELSE [ok |-> FALSE, value |-> cached_data.doc]

NoResult ==
    [transaction_id |-> "", assessment_id |-> <<"", 0>>, risk_score |-> <<0, 1>>,
     risk_level |-> "VERY_LOW", decision |-> "APPROVE", fraud_probability |-> 0,
     behavioral_score |-> 0, processing_time_ms |-> 0, risk_factors |-> <<>>,
     recommended_actions |-> {}, model_version |-> "", confidence |-> 0,
     timestamp |-> 0]

\* the cache service: an entry holds a text until its expiry
NoEntry == [data |-> [text |-> "", doc |-> NoResult], expires_at |-> 0]
Garbage == [text |-> "garbage", doc |-> NoResult]
\* cache_service.get(key): the text, or None once the entry has expired
CacheGet(store, key, time) ==
    IF store[key].data.text # "" /\ time < store[key].expires_at
    THEN store[key].data
    ELSE NoEntry.data
\* cache_service.set(key, value, expire_seconds)
CacheSet(store, key, value, expire_seconds, time) ==
    [store EXCEPT ![key] = [data |-> value, expires_at |-> time + expire_seconds]]

\* _check_cache once cache_service.get() has returned
_check_cache(cached_data) ==
    IF cached_data.text # ""
    THEN LET parsed == parse_raw(cached_data)
         IN  IF parsed.ok THEN [hit |-> TRUE, value |-> parsed.value, read |-> "hit"]
             ELSE [hit |-> FALSE, value |-> NoResult, read |-> "corrupt"]
    ELSE [hit |-> FALSE, value |-> NoResult, read |-> "miss"]

\* list.sort(key=score, reverse=True): stable, by non-increasing score
RECURSIVE InsertByScore(_, _)
InsertByScore(x, sorted) ==
    IF sorted = <<>> THEN <<x>>
    ELSE IF Head(sorted).score >= x.score
    THEN <<Head(sorted)>> \o InsertByScore(x, Tail(sorted))
    ELSE <<x>> \o sorted
RECURSIVE SortByScore(_)
SortByScore(factors) ==
    IF factors = <<>> THEN <<>>
    ELSE InsertByScore(factors[Len(factors)],
                       SortByScore(SubSeq(factors, 1, Len(factors) - 1)))

RiskFactor(factor, score, weight) ==
    [factor |-> factor, score |-> score, weight |-> weight]

\* _analyze_feature_risks: features is a dict of the risk attributes the
\* features object has; scores are in tenths of a point
_analyze_feature_risks(features) ==
    (IF "geo_risk_score" \in DOMAIN features /\ features.geo_risk_score > 300
     THEN <<RiskFactor("geographic_risk", features.geo_risk_score, 20)>> ELSE <<>>)
    \o (IF "device_risk_score" \in DOMAIN features /\ features.device_risk_score > 400
        THEN <<RiskFactor("device_risk", features.device_risk_score, 15)>> ELSE <<>>)
    \o (IF "email_risk_score" \in DOMAIN features /\ features.email_risk_score > 500
        THEN <<RiskFactor("email_risk", features.email_risk_score, 10)>> ELSE <<>>)

RECURSIVE ModelFactors(_, _)
ModelFactors(individual_predictions, names) ==
    IF names = <<>> THEN <<>>
    ELSE (IF individual_predictions[Head(names)] > 500
          THEN <<RiskFactor("ml_model_" \o Head(names),
                            individual_predictions[Head(names)],
                            Get(EngineEnsembleWeights, Head(names), 10))>>
          ELSE <<>>)
         \o ModelFactors(individual_predictions, Tail(names))

\* risk factors that take in a behavioral score at its threshold
RiskFactorsAtThreshold(features, behavioral_score, ml_predictions) ==
    LET individual == Get(ml_predictions, "individual_predictions", <<>>)
        risk_factors ==
            (IF behavioral_score >= 50
             THEN <<RiskFactor("behavioral_anomaly", behavioral_score * 10, 30)>>
             ELSE <<>>)
            \o ModelFactors(individual, Keys(individual))
            \o _analyze_feature_risks(features)
        sorted == SortByScore(risk_factors)
    IN  SubSeq(sorted, 1, Min(10, Len(sorted)))

\* factor scores are in tenths of a point: behavioral_score * 10, and
\* prediction * 100 of a prediction in thousandths
_generate_risk_factors(features, behavioral_score, ml_predictions) ==
    LET individual == Get(ml_predictions, "individual_predictions", <<>>)
        risk_factors ==
            (IF behavioral_score > 50
             THEN <<RiskFactor("behavioral_anomaly", behavioral_score * 10, 30)>>
             ELSE <<>>)
            \o ModelFactors(individual, Keys(individual))
            \o _analyze_feature_risks(features)
        sorted == SortByScore(risk_factors)
    IN  SubSeq(sorted, 1, Min(10, Len(sorted)))

FactorAction(factor) ==
    IF factor.factor = "behavioral_anomaly"
    THEN {"Verify customer identity through additional channels"}
    ELSE IF SubSeq(factor.factor, 1, 8) = "ml_model"
    THEN {"Review model prediction details for " \o factor.factor}
    ELSE IF factor.factor = "geographic_risk"
    THEN {"Verify billing/shipping address accuracy"}
    ELSE IF factor.factor = "device_risk"
    THEN {"Request device verification or two-factor authentication"}
    ELSE {}

\* list(set(actions)): the actions without duplicates, as a set
_get_recommended_actions(decision, risk_level, risk_factors) ==
    (CASE decision = "DECLINE" ->
              {"Decline transaction immediately", "Add customer to watchlist",
               "Review for potential fraud ring activity"}
       [] decision = "REVIEW" ->
              {"Hold for manual review", "Contact customer for verification",
               "Request additional authentication"}
       [] decision = "MONITOR" ->
              {"Allow transaction but monitor closely",
               "Flag for next transaction review", "Track behavioral patterns"}
       [] OTHER -> {"Approve transaction"})
    \cup UNION {FactorAction(risk_factors[i]) :
                    i \in 1..Min(3, Len(risk_factors))}

\* the fallback of _get_ml_predictions (fraud_engine.py 200-208)
MlFallback ==
    [ensemble_probability |-> 500, confidence |-> 300, model_version |-> "fallback",
     individual_predictions |-> <<>>]

\* what the collaborators of one assessment return; ok = FALSE: it raises,
\* and timeout = TRUE: what it raises is the expiry of its timeout
FeatureOutcomes ==
    {[ok |-> FALSE, features |-> <<>>],
     [ok |-> TRUE, features |-> [geo_risk_score |-> 350]]}
BehavioralOutcomes ==
    {[ok |-> FALSE, timeout |-> t, behavioral_score |-> 0] : t \in BOOLEAN}
    \cup {[ok |-> TRUE, timeout |-> FALSE, behavioral_score |-> b] : b \in {80}}
MlOutcomes ==
    {[ok |-> FALSE, timeout |-> t, predictions |-> MlFallback] : t \in BOOLEAN}
    \cup
    {[ok |-> TRUE, timeout |-> FALSE,
      predictions |->
          [ensemble_probability |-> 900, confidence |-> 800,
           model_version |-> "2.1.0",
           individual_predictions |-> [m \in {"xgboost"} |-> 900]]]}
CalibrationOutcomes ==
    {[ok |-> FALSE, risk_score |-> <<0, 1>>]}
    \cup {[ok |-> TRUE, risk_score |-> <<x, 1>>] : x \in {70}}

\* _get_ml_predictions
_get_ml_predictions(out) == IF out.ok THEN out.predictions ELSE MlFallback

\* the calls are numbered in the order they are made
MaxCalls == 2
MaxTime == 300
TickStep == 150
Reqs == 1..MaxCalls

NoCall ==
    [pc |-> "idle", tx |-> NoTx, made_time |-> 0, made_len |-> 0,
     cache_read |-> "none", features |-> <<>>, behavioral_score |-> 0,
     ml_predictions |-> MlFallback, result |-> NoResult, outcome |-> "none",
     error |-> "", timed_out |-> "none"]

\* the except clause of assess_transaction: the exception is logged and raised
Failed(call, error) == [call EXCEPT !.pc = "failed", !.outcome = "error", !.error = error]
\* the exception of a collaborator is the expiry of its timeout
TimedOut(call, error) == [Failed(call, error) EXCEPT !.timed_out = error]
\* asyncio.CancelledError, which no `except Exception` catches, ends the
\* call; `error` keeps the step the call was suspended in
Cancelled(call, at) ==
    [call EXCEPT !.pc = "cancelled", !.outcome = "cancelled", !.error = at]

\* no call of initialize() yet
NotStarted == [initialized |-> {}, raised |-> "none"]

EngineIdle ==
    /\ is_initialized = FALSE
    /\ ml_client = "none"
    /\ startup = NotStarted
    /\ assessment_count = 0
    /\ total_processing_time = 0
    /\ cache = [k \in CacheKeys |-> NoEntry]
    /\ now = 0
    /\ reqs = [r \in Reqs |-> NoCall]
    /\ calls = 0
    /\ computed = <<>>

\* the cache is empty, or holds a text that is no assessment
EngineInit ==
    /\ is_initialized = FALSE
    /\ ml_client = "none"
    /\ startup = NotStarted
    /\ assessment_count = 0
    /\ total_processing_time = 0
    /\ cache \in {[k \in CacheKeys |-> NoEntry],
                  [k \in CacheKeys |->
                      IF k = _get_cache_key(Tx("t1", "c1", 1000))
                      THEN [data |-> Garbage, expires_at |-> FEATURE_CACHE_TTL]
                      ELSE NoEntry]}
    /\ now = 0
    /\ reqs = [r \in Reqs |-> NoCall]
    /\ calls = 0
    /\ computed = <<>>
    /\ fraud_thresholds = Thresholds(30, 60, 80)

\* the collaborators in the order initialize() initializes them
Collaborators ==
    <<"ml_client", "feature_engineer", "behavioral_analyzer", "risk_calibrator">>

\* the collaborators whose initialize() has returned when `failing` raises
InitializedBefore(failing) ==
    {Collaborators[i] : i \in {j \in 1..Len(Collaborators) :
                                 \A k \in 1..j : Collaborators[k] # failing}}

\* an initialize() that sets the flag before it initializes the collaborators
EngineInitializeFlagFirst ==
    /\ ~is_initialized
    /\ \E failing \in {"none", "ml_client", "feature_engineer",
                       "behavioral_analyzer", "risk_calibrator"} :
          /\ ml_client' = "client"
          /\ startup' = [initialized |-> (startup.initialized \ {"ml_client"})
                                             \cup InitializedBefore(failing),
                         raised |-> failing]
          /\ is_initialized' = TRUE
    /\ UNCHANGED <<assessment_count, total_processing_time, cache, now, reqs, calls, computed>>
    /\ UNCHANGED <<service, batchVars, functionVars, ensembleVars, detectorVars, fraud_thresholds, decisionVars>>

\* initialize(): a new ML client is made and initialized, then the feature
\* engineer, the behavioral analyzer and the risk calibrator are initialized
\* in this order; the first failure is logged and raised again, and the
\* flag is set only after the last step.  A failed cache warm-up is logged
\* and swallowed.
EngineInitialize ==
    /\ ~is_initialized
    /\ \E failing \in {"none", "ml_client", "feature_engineer",
                       "behavioral_analyzer", "risk_calibrator"} :
          /\ ml_client' = "client"
          /\ startup' = [initialized |-> (startup.initialized \ {"ml_client"})
                                             \cup InitializedBefore(failing),
                         raised |-> failing]
          /\ is_initialized' = (failing = "none")
    /\ UNCHANGED <<assessment_count, total_processing_time, cache, now, reqs, calls, computed>>
    /\ UNCHANGED <<service, batchVars, functionVars, ensembleVars, detectorVars, fraud_thresholds, decisionVars>>

\* time passes
Tick ==
    /\ now + TickStep <= MaxTime
    /\ now' = now + TickStep
    /\ UNCHANGED <<is_initialized, ml_client, startup, assessment_count, total_processing_time, cache, reqs,
                   calls, computed>>
    /\ UNCHANGED <<service, batchVars, functionVars, ensembleVars, detectorVars, fraud_thresholds, decisionVars>>

\* assess_transaction() on an engine that is not initialized raises
AssessNotInitialized(r) ==
    /\ ~is_initialized
    /\ r = calls + 1
    /\ \E tx \in Txs :
          reqs' = [reqs EXCEPT ![r] =
                      Failed([NoCall EXCEPT !.tx = tx, !.made_time = now],
                             "not_initialized")]
    /\ calls' = calls + 1
    /\ UNCHANGED <<is_initialized, ml_client, startup, assessment_count, total_processing_time, cache, now, computed>>
    /\ UNCHANGED <<service, batchVars, functionVars, ensembleVars, detectorVars, fraud_thresholds, decisionVars>>

\* an assess_transaction() whose cache hit writes the entry back, with a
\* fresh time to live
AssessStartRefreshesOnHit(r) ==
    /\ is_initialized
    /\ r = calls + 1
    /\ \E tx \in Txs, get \in {"answers", "raises", "timeout", "cancelled"} :
          LET call == [NoCall EXCEPT !.tx = tx, !.made_time = now,
                                     !.made_len = Len(computed)]
              checked == _check_cache(CacheGet(cache, _get_cache_key(tx), now))
          IN  /\ reqs' = [reqs EXCEPT ![r] =
                     IF get = "cancelled"
                     THEN Cancelled(call, "cache_service.get")
                     ELSE IF get = "raises"
                     THEN Failed([call EXCEPT !.cache_read = "unavailable"],
                                 "cache_service.get")
                     ELSE IF get = "timeout"
                     THEN TimedOut([call EXCEPT !.cache_read = "unavailable"],
                                   "cache_service.get")
                     ELSE IF checked.hit
                     THEN [call EXCEPT !.pc = "done", !.cache_read = checked.read,
                                       !.outcome = "cached", !.result = checked.value]
                     ELSE [call EXCEPT !.pc = "features", !.cache_read = checked.read]]
              /\ cache' = IF get = "answers" /\ checked.hit
                          THEN CacheSet(cache, _get_cache_key(tx),
                                        cache[_get_cache_key(tx)].data,
                                        FEATURE_CACHE_TTL, now)
                          ELSE cache
    /\ calls' = calls + 1
    /\ UNCHANGED <<is_initialized, ml_client, startup, assessment_count, total_processing_time, now, computed>>
    /\ UNCHANGED <<service, batchVars, functionVars, ensembleVars, detectorVars, fraud_thresholds, decisionVars>>

\* assess_transaction() up to the answer of the cache: the call is
\* cancelled while it waits for the cache, or cache_service.get() raises
\* (the exception is logged and raised again), or _check_cache returns the
\* cached assessment, which is returned, or None
AssessStart(r) ==
    /\ is_initialized
    /\ r = calls + 1
    /\ \E tx \in Txs, get \in {"answers", "raises", "timeout", "cancelled"} :
          LET call == [NoCall EXCEPT !.tx = tx, !.made_time = now,
                                     !.made_len = Len(computed)]
              checked == _check_cache(CacheGet(cache, _get_cache_key(tx), now))
          IN  reqs' = [reqs EXCEPT ![r] =
                  IF get = "cancelled"
                  THEN Cancelled(call, "cache_service.get")
                  ELSE IF get = "raises"
                  THEN Failed([call EXCEPT !.cache_read = "unavailable"],
                              "cache_service.get")
                  ELSE IF get = "timeout"
                  THEN TimedOut([call EXCEPT !.cache_read = "unavailable"],
                                "cache_service.get")
                  ELSE IF checked.hit
                  THEN [call EXCEPT !.pc = "done", !.cache_read = checked.read,
                                    !.outcome = "cached", !.result = checked.value]
                  ELSE [call EXCEPT !.pc = "features", !.cache_read = checked.read]]
    /\ calls' = calls + 1
    /\ UNCHANGED <<is_initialized, ml_client, startup, assessment_count, total_processing_time, cache, now, computed>>
    /\ UNCHANGED <<service, batchVars, functionVars, ensembleVars, detectorVars, fraud_thresholds, decisionVars>>

\* Step 1: feature_engineer.extract_features
AssessFeatures(r) ==
    /\ reqs[r].pc = "features"
    /\ \E out \in FeatureOutcomes :
          reqs' = [reqs EXCEPT ![r] =
                      IF out.ok
                      THEN [reqs[r] EXCEPT !.pc = "behavioral", !.features = out.features]
                      ELSE Failed(reqs[r], "extract_features")]
    /\ UNCHANGED <<is_initialized, ml_client, startup, assessment_count, total_processing_time, cache, now,
                   calls, computed>>
    /\ UNCHANGED <<service, batchVars, functionVars, ensembleVars, detectorVars, fraud_thresholds, decisionVars>>

\* Step 2: behavioral_analyzer.analyze
AssessBehavioral(r) ==
    /\ reqs[r].pc = "behavioral"
    /\ \E out \in BehavioralOutcomes :
          reqs' = [reqs EXCEPT ![r] =
                      IF out.ok
                      THEN [reqs[r] EXCEPT !.pc = "ml",
                                           !.behavioral_score = out.behavioral_score]
                      ELSE IF out.timeout
                      THEN TimedOut(reqs[r], "behavioral_analyzer.analyze")
                      ELSE Failed(reqs[r], "behavioral_analyzer.analyze")]
    /\ UNCHANGED <<is_initialized, ml_client, startup, assessment_count, total_processing_time, cache, now,
                   calls, computed>>
    /\ UNCHANGED <<service, batchVars, functionVars, ensembleVars, detectorVars, fraud_thresholds, decisionVars>>

\* Step 3: _get_ml_predictions
AssessMl(r) ==
    /\ reqs[r].pc = "ml"
    /\ \E out \in MlOutcomes :
          reqs' = [reqs EXCEPT ![r] =
                      IF ml_client = "none"
                      THEN Failed(reqs[r], "ML client not initialized")
                      ELSE [reqs[r] EXCEPT
                               !.pc = "calibrate",
                               !.ml_predictions = _get_ml_predictions(out),
                               !.timed_out = IF out.timeout
                                             THEN "ml_client.predict_fraud" ELSE @]]
    /\ UNCHANGED <<is_initialized, ml_client, startup, assessment_count, total_processing_time, cache, now,
                   calls, computed>>
    /\ UNCHANGED <<service, batchVars, functionVars, ensembleVars, detectorVars, fraud_thresholds, decisionVars>>

\* a result whose model version carries the time of the scoring
BuildResultStampedVersion(call, risk_score, time) ==
    LET decision == _make_decision(risk_score, call.tx.amount, fraud_thresholds)
        risk_level == _determine_risk_level(risk_score, fraud_thresholds)
        risk_factors == _generate_risk_factors(call.features, call.behavioral_score,
                                               call.ml_predictions)
    IN  [transaction_id |-> call.tx.transaction_id,
         assessment_id |-> <<call.tx.transaction_id, call.made_time>>,
         risk_score |-> risk_score,
         risk_level |-> risk_level,
         decision |-> decision,
         fraud_probability |-> Get(call.ml_predictions, "ensemble_probability", 0),
         behavioral_score |-> call.behavioral_score,
         processing_time_ms |-> (time - call.made_time) * 1000,
         risk_factors |-> risk_factors,
         recommended_actions |->
             _get_recommended_actions(decision, risk_level, risk_factors),
         model_version |-> <<Get(call.ml_predictions, "model_version", "unknown"),
                             call.made_time>>,
         confidence |-> Get(call.ml_predictions, "confidence", 0),
         timestamp |-> time]

\* the FraudAssessmentResult of steps 5 to 7
BuildResult(call, risk_score, time) ==
    LET decision == _make_decision(risk_score, call.tx.amount, fraud_thresholds)
        risk_level == _determine_risk_level(risk_score, fraud_thresholds)
        risk_factors == _generate_risk_factors(call.features, call.behavioral_score,
                                               call.ml_predictions)
    IN  [transaction_id |-> call.tx.transaction_id,
         assessment_id |-> <<call.tx.transaction_id, call.made_time>>,
         risk_score |-> risk_score,
         risk_level |-> risk_level,
         decision |-> decision,
         fraud_probability |-> Get(call.ml_predictions, "ensemble_probability", 0),
         behavioral_score |-> call.behavioral_score,
         processing_time_ms |-> (time - call.made_time) * 1000,
         risk_factors |-> risk_factors,
         recommended_actions |->
             _get_recommended_actions(decision, risk_level, risk_factors),
         model_version |-> Get(call.ml_predictions, "model_version", "unknown"),
         confidence |-> Get(call.ml_predictions, "confidence", 0),
         timestamp |-> time]

\* Steps 4 to 7: risk_calibrator.calibrate_score, the decision, the risk
\* factors, the recommended actions and the result
AssessCalibrate(r) ==
    /\ reqs[r].pc = "calibrate"
    /\ \E out \in CalibrationOutcomes :
          reqs' = [reqs EXCEPT ![r] =
                      IF out.ok
                      THEN [reqs[r] EXCEPT
                               !.pc = "cache_result",
                               !.result = BuildResult(reqs[r], out.risk_score, now)]
                      ELSE Failed(reqs[r], "risk_calibrator.calibrate_score")]
    /\ UNCHANGED <<is_initialized, ml_client, startup, assessment_count, total_processing_time, cache, now,
                   calls, computed>>
    /\ UNCHANGED <<service, batchVars, functionVars, ensembleVars, detectorVars, fraud_thresholds, decisionVars>>

\* a failure of cache_service.set() that is raised to the caller
CacheResultPropagates(r) ==
    /\ reqs[r].pc = "cache_result"
    /\ \E set_raises \in BOOLEAN :
          /\ cache' = IF set_raises THEN cache
                      ELSE CacheSet(cache, _get_cache_key(reqs[r].tx),
                                    Json(reqs[r].result), FEATURE_CACHE_TTL, now)
          /\ computed' = Append(computed,
                                [key |-> _get_cache_key(reqs[r].tx),
                                 value |-> reqs[r].result, at |-> now,
                                 stored |-> ~set_raises])
          /\ assessment_count' = IF set_raises THEN assessment_count
                                 ELSE assessment_count + 1
          /\ total_processing_time' =
                 IF set_raises THEN total_processing_time
                 ELSE total_processing_time
                          + reqs[r].result.processing_time_ms \div 1000
          /\ reqs' = [reqs EXCEPT ![r] =
                         IF set_raises THEN Failed(reqs[r], "cache_service.set")
                         ELSE [reqs[r] EXCEPT !.pc = "done", !.outcome = "fresh"]]
    /\ UNCHANGED <<is_initialized, ml_client, startup, now, calls>>
    /\ UNCHANGED <<service, batchVars, functionVars, ensembleVars, detectorVars, fraud_thresholds, decisionVars>>

\* _cache_result (a failure of cache_service.set() is logged and
\* swallowed), _update_metrics (the processing time added is the one measured
\* when the result was constructed) and the return of the result
AssessCacheResult(r) ==
    /\ reqs[r].pc = "cache_result"
    /\ \E set_raises \in BOOLEAN :
          /\ cache' = IF set_raises THEN cache
                      ELSE CacheSet(cache, _get_cache_key(reqs[r].tx),
                                    Json(reqs[r].result), FEATURE_CACHE_TTL, now)
          /\ computed' = Append(computed,
                                [key |-> _get_cache_key(reqs[r].tx),
                                 value |-> reqs[r].result, at |-> now,
                                 stored |-> ~set_raises])
    /\ assessment_count' = assessment_count + 1
    /\ total_processing_time' =
           total_processing_time + reqs[r].result.processing_time_ms \div 1000
    /\ reqs' = [reqs EXCEPT ![r] = [reqs[r] EXCEPT !.pc = "done", !.outcome = "fresh"]]
    /\ UNCHANGED <<is_initialized, ml_client, startup, now, calls>>
    /\ UNCHANGED <<service, batchVars, functionVars, ensembleVars, detectorVars, fraud_thresholds, decisionVars>>

\* the await a call is suspended in, by the step that comes next
SuspendedIn(pc) ==
    CASE pc = "features"     -> "feature_engineer.extract_features"
      [] pc = "behavioral"   -> "behavioral_analyzer.analyze"
      [] pc = "ml"           -> "ml_client.predict_fraud"
      [] pc = "calibrate"    -> "risk_calibrator.calibrate_score"
      [] pc = "cache_result" -> "cache_service.set"

\* a cancellation handler that caches whatever result the call holds
CancelWritesPartial(r) ==
    /\ reqs[r].pc \in {"features", "behavioral", "ml", "calibrate", "cache_result"}
    /\ cache' = CacheSet(cache, _get_cache_key(reqs[r].tx), Json(reqs[r].result),
                         FEATURE_CACHE_TTL, now)
    /\ computed' = Append(computed,
                          [key |-> _get_cache_key(reqs[r].tx),
                           value |-> reqs[r].result, at |-> now, stored |-> TRUE])
    /\ reqs' = [reqs EXCEPT ![r] = Cancelled(reqs[r], SuspendedIn(reqs[r].pc))]
    /\ UNCHANGED <<is_initialized, ml_client, startup, assessment_count, total_processing_time, now, calls>>
    /\ UNCHANGED <<service, batchVars, functionVars, ensembleVars, detectorVars, fraud_thresholds, decisionVars>>

\* the task of a call is cancelled while the call is suspended in an await:
\* CancelledError is raised there and leaves assess_transaction.  A call
\* suspended in cache_service.set() is cancelled before or after the store
\* has taken the value.
AssessCancel(r) ==
    /\ reqs[r].pc \in {"features", "behavioral", "ml", "calibrate", "cache_result"}
    /\ \E written \in BOOLEAN :
          /\ written => reqs[r].pc = "cache_result"
          /\ cache' = IF written
                      THEN CacheSet(cache, _get_cache_key(reqs[r].tx),
                                    Json(reqs[r].result), FEATURE_CACHE_TTL, now)
                      ELSE cache
          /\ computed' = IF written
                         THEN Append(computed,
                                     [key |-> _get_cache_key(reqs[r].tx),
                                      value |-> reqs[r].result, at |-> now,
                                      stored |-> TRUE])
                         ELSE computed
    /\ reqs' = [reqs EXCEPT ![r] = Cancelled(reqs[r], SuspendedIn(reqs[r].pc))]
    /\ UNCHANGED <<is_initialized, ml_client, startup, assessment_count, total_processing_time, now, calls>>
    /\ UNCHANGED <<service, batchVars, functionVars, ensembleVars, detectorVars, fraud_thresholds, decisionVars>>

Next ==
    \/ EngineInitialize
    \/ Tick
    \/ \E r \in Reqs : AssessNotInitialized(r)
    \/ \E r \in Reqs : AssessStart(r)
    \/ \E r \in Reqs : AssessFeatures(r)
    \/ \E r \in Reqs : AssessBehavioral(r)
    \/ \E r \in Reqs : AssessMl(r)
    \/ \E r \in Reqs : AssessCalibrate(r)
    \/ \E r \in Reqs : AssessCacheResult(r)
    \/ \E r \in Reqs : AssessCancel(r)

(***************************************************************************)
(* The explanations: FraudDetectionEngine._generate_risk_factors and       *)
(* _get_recommended_actions (fraud_engine.py 246-358) and                  *)
(* FraudDetector._explain_decision (fraud_detector.py 441-475)             *)
(***************************************************************************)
\* the signals of one assessment of the engine: the behavioral score in
\* points, the predictions in thousandths, the feature risks in tenths
EngineSignals ==
    [behavioral_score : {50, 51, 71},
     individual_predictions :
         {<<>>} \cup [{"random_forest", "xgboost"} -> {500, 600, 900}],
     features :
         {[geo_risk_score |-> 300], [geo_risk_score |-> 310],
          [geo_risk_score |-> 310, device_risk_score |-> 410],
          [geo_risk_score |-> 300, device_risk_score |-> 400,
           email_risk_score |-> 500],
          [geo_risk_score |-> 350, device_risk_score |-> 410,
           email_risk_score |-> 510]}]

\* the signals of one assessment of the detector: the probabilities in
\* thousandths, the composite score and the anomaly score in points
DetectorSignals ==
    [individual_scores : [DetectorModelNames -> {700, 710, 900}],
     composite_score : {70, 71, 90},
     anomaly_indicators :
         {<<>>, <<"velocity_spike">>, <<"velocity_spike", "new_device">>},
     anomaly_score : {25, 70, 71, 100}]

\* the lists that hold each element of a set once
RECURSIVE Orderings(_)
Orderings(set) ==
    IF set = {} THEN {<<>>}
    ELSE UNION {{<<x>> \o rest : rest \in Orderings(set \ {x})} : x \in set}

RECURSIVE HighScores(_, _)
HighScores(individual_scores, names) ==
    IF names = <<>> THEN <<>>
    ELSE (IF individual_scores[Head(names)] > 700
          THEN <<"high_" \o Head(names) \o "_score">> ELSE <<>>)
         \o HighScores(individual_scores, Tail(names))

\* _explain_decision: primary_risk_factors
_explain_decision(individual_scores, behavioral_result, anomaly_score) ==
    LET risk_factors ==
            HighScores(individual_scores, Keys(individual_scores))
            \o (IF behavioral_result.composite_score > 70
                THEN behavioral_result.anomaly_indicators ELSE <<>>)
            \o (IF anomaly_score > 70 THEN <<"transaction_anomaly">> ELSE <<>>)
    IN  SubSeq(risk_factors, 1, Min(5, Len(risk_factors)))

NoExplanation ==
    [pc |-> "idle", behavioral_score |-> 0, individual_predictions |-> <<>>,
     features |-> <<>>, risk_factors |-> <<>>, decision |-> "APPROVE",
     recommended_actions |-> <<>>, individual_scores |-> <<>>,
     behavioral_result |-> BehavioralDefault(<<>>, FALSE), anomaly_score |-> 0,
     primary_risk_factors |-> <<>>]

FunctionsIdle == feat = NoFeatures /\ expl = NoExplanation

\* assess_transaction, step 6: _generate_risk_factors
GenerateRiskFactors ==
    /\ service = "explanation"
    /\ expl.pc = "idle"
    /\ \E in \in EngineSignals :
          expl' = [expl EXCEPT
                      !.pc = "factors",
                      !.behavioral_score = in.behavioral_score,
                      !.individual_predictions = in.individual_predictions,
                      !.features = in.features,
                      !.risk_factors =
                          _generate_risk_factors(
                              in.features, in.behavioral_score,
                              [individual_predictions |-> in.individual_predictions])]
    /\ UNCHANGED feat
    /\ UNCHANGED <<service, batchVars, ensembleVars, detectorVars, fraud_thresholds,
                   decisionVars, engineVars>>

\* assess_transaction, step 7: _get_recommended_actions; list(set(actions))
\* holds the actions in the order in which the set iterates, which is
\* any order
GetRecommendedActions ==
    /\ expl.pc = "factors"
    /\ \E decision \in {"APPROVE", "MONITOR", "REVIEW", "DECLINE"} :
          \E actions \in Orderings(_get_recommended_actions(decision, "LOW",
                                                            expl.risk_factors)) :
              expl' = [expl EXCEPT !.pc = "actions",
                                   !.decision = decision,
                                   !.recommended_actions = actions]
    /\ UNCHANGED feat
    /\ UNCHANGED <<service, batchVars, ensembleVars, detectorVars, fraud_thresholds,
                   decisionVars, engineVars>>

\* assess_fraud_risk, step 7: _explain_decision
ExplainDecision ==
    /\ service = "explanation"
    /\ expl.pc = "idle"
    /\ \E in \in DetectorSignals :
          LET behavioral_result ==
                  [BehavioralDefault(in.anomaly_indicators, FALSE)
                      EXCEPT !.composite_score = in.composite_score]
          IN  expl' = [expl EXCEPT
                          !.pc = "explained",
                          !.individual_scores = in.individual_scores,
                          !.behavioral_result = behavioral_result,
                          !.anomaly_score = in.anomaly_score,
                          !.primary_risk_factors =
                              _explain_decision(in.individual_scores,
                                                behavioral_result, in.anomaly_score)]
    /\ UNCHANGED feat
    /\ UNCHANGED <<service, batchVars, ensembleVars, detectorVars, fraud_thresholds,
                   decisionVars, engineVars>>

\* the next assessment
ExplainAgain ==
    /\ expl.pc \in {"actions", "explained"}
    /\ expl' = NoExplanation
    /\ UNCHANGED feat
    /\ UNCHANGED <<service, batchVars, ensembleVars, detectorVars, fraud_thresholds,
                   decisionVars, engineVars>>

ExplainNext ==
    \/ GenerateRiskFactors
    \/ GetRecommendedActions
    \/ ExplainDecision
    \/ ExplainAgain

(***************************************************************************)
(* assess_batch_transactions (fraud_assessment.py 160-283)                 *)
(*                                                                         *)
(* The transactions of a batch are numbered 1..size; transaction i has the *)
(* transaction id i.  The assessment of transaction i is written           *)
(* [item |-> i].  One call of fraud_engine.assess_transaction is one step  *)
(* that returns an assessment or raises.  The tasks of asyncio.gather are  *)
(* started in the order of the list and asyncio.Semaphore wakes its        *)
(* waiters first in, first out, so the tasks enter the semaphore in the    *)
(* order of the list.                                                      *)
(***************************************************************************)
\* asyncio.Semaphore(10)
SemaphoreValue == 10
\* len(batch_request.transactions) > 1000 is refused
MaxBatchSize == 1000
\* the largest batch that is served
MaxBatch == 11
BatchItems == 1..MaxBatch
\* the sizes of the batches requested: empty, one transaction, more
\* transactions than the semaphore admits, and a batch that is too large
BatchSizes == {0, 1, MaxBatch, MaxBatchSize + 1}

NoResponse ==
    [total_transactions |-> 0, successful_assessments |-> 0,
     failed_assessments |-> 0, results |-> <<>>, errors |-> <<>>]
NoBatch ==
    [pc |-> "idle", size |-> 0, status |-> 0, value |-> 0, next |-> 1,
     task |-> [i \in BatchItems |-> "none"], response |-> NoResponse,
     stored |-> [assessment_results |-> <<>>, transaction_data_list |-> <<>>]]

BatchIdle == batch = NoBatch

\* the results loop (224-238) over assessment_results[1..upto]
RECURSIVE successful_assessments(_, _)
successful_assessments(task, upto) ==
    IF upto = 0 THEN <<>>
    ELSE LET before == successful_assessments(task, upto - 1)
         IN  IF task[upto] = "returned" THEN Append(before, [item |-> upto])
             ELSE before
RECURSIVE failed_assessments(_, _)
failed_assessments(task, upto) ==
    IF upto = 0 THEN <<>>
    ELSE LET before == failed_assessments(task, upto - 1)
         IN  IF task[upto] = "raised"
             THEN Append(before, [transaction_id |-> upto, error |-> "raised"])
             ELSE before

\* the request up to asyncio.gather: the size check (400), the
\* organization check (403), the semaphore and the tasks
BatchRequest ==
    /\ service = "batch-endpoint"
    /\ batch.pc = "idle"
    /\ \E size \in BatchSizes, foreign_organization \in BOOLEAN :
          batch' =
              IF size > MaxBatchSize
              THEN [NoBatch EXCEPT !.pc = "rejected", !.size = size, !.status = 400]
              ELSE IF size > 0 /\ foreign_organization
              THEN [NoBatch EXCEPT !.pc = "rejected", !.size = size, !.status = 403]
              ELSE [NoBatch EXCEPT
                       !.pc = "gather", !.size = size, !.value = SemaphoreValue,
                       !.task = [i \in BatchItems |->
                                    IF i <= size THEN "waiting" ELSE "none"]]
    /\ UNCHANGED <<service, functionVars, ensembleVars, detectorVars, fraud_thresholds,
                   decisionVars, engineVars>>

\* a task that enters without waiting for the semaphore
AcquireWithoutWaiting ==
    /\ batch.pc = "gather"
    /\ batch.next <= batch.size
    /\ batch' = [batch EXCEPT !.value = @ - 1, !.next = @ + 1,
                              !.task[batch.next] = "running"]
    /\ UNCHANGED <<service, functionVars, ensembleVars, detectorVars, fraud_thresholds,
                   decisionVars, engineVars>>

\* assess_with_semaphore: `async with semaphore` is entered
BatchAcquire ==
    /\ batch.pc = "gather"
    /\ batch.next <= batch.size
    /\ batch.value > 0
    /\ batch' = [batch EXCEPT !.value = @ - 1, !.next = @ + 1,
                              !.task[batch.next] = "running"]
    /\ UNCHANGED <<service, functionVars, ensembleVars, detectorVars, fraud_thresholds,
                   decisionVars, engineVars>>

\* assess_with_semaphore: fraud_engine.assess_transaction returns or
\* raises, and `async with semaphore` is left
BatchAssess(i) ==
    /\ batch.pc = "gather"
    /\ batch.task[i] = "running"
    /\ \E outcome \in {"returned", "raised"} :
          batch' = [batch EXCEPT !.value = @ + 1, !.task[i] = outcome]
    /\ UNCHANGED <<service, functionVars, ensembleVars, detectorVars, fraud_thresholds,
                   decisionVars, engineVars>>

\* asyncio.gather without return_exceptions: an assessment that raised
\* fails the batch with status 500
RespondFailsOnException ==
    /\ batch.pc = "gather"
    /\ \A i \in 1..batch.size : batch.task[i] \in {"returned", "raised"}
    /\ LET successful == successful_assessments(batch.task, batch.size)
       IN  batch' =
               IF \E i \in 1..batch.size : batch.task[i] = "raised"
               THEN [batch EXCEPT !.pc = "rejected", !.status = 500]
               ELSE [batch EXCEPT
                        !.pc = "done",
                        !.status = 200,
                        !.response =
                            [total_transactions |-> batch.size,
                             successful_assessments |-> Len(successful),
                             failed_assessments |-> 0,
                             results |-> successful,
                             errors |-> <<>>]]
    /\ UNCHANGED <<service, functionVars, ensembleVars, detectorVars, fraud_thresholds,
                   decisionVars, engineVars>>

\* asyncio.gather(return_exceptions=True) has returned: the results loop,
\* the background task _store_batch_assessments and the BatchAssessmentResult
BatchRespond ==
    /\ batch.pc = "gather"
    /\ \A i \in 1..batch.size : batch.task[i] \in {"returned", "raised"}
    /\ LET successful == successful_assessments(batch.task, batch.size)
           failed == failed_assessments(batch.task, batch.size)
       IN  batch' = [batch EXCEPT
                        !.pc = "done",
                        !.status = 200,
                        !.stored =
                            IF successful # <<>>
                            THEN [assessment_results |-> successful,
                                  transaction_data_list |->
                                      [k \in 1..Len(successful) |-> k]]
                            ELSE @,
                        !.response =
                            [total_transactions |-> batch.size,
                             successful_assessments |-> Len(successful),
                             failed_assessments |-> Len(failed),
                             results |-> successful,
                             errors |-> failed]]
    /\ UNCHANGED <<service, functionVars, ensembleVars, detectorVars, fraud_thresholds,
                   decisionVars, engineVars>>

BatchNext ==
    \/ BatchRequest
    \/ BatchAcquire
    \/ \E i \in BatchItems : BatchAssess(i)
    \/ BatchRespond

BatchInit ==
    /\ service = "batch-endpoint"
    /\ BatchIdle /\ EngineIdle /\ EnsembleIdle /\ DetectorIdle /\ DecisionIdle
    /\ FunctionsIdle
    /\ fraud_thresholds = Thresholds(30, 60, 80)

\* the batch endpoint of the fraud-detection service
SpecBatch == BatchInit /\ [][BatchNext]_vars

\* the event loop keeps running the tasks that are ready, and every call
\* of assess_transaction ends
SpecBatchLive == BatchInit /\ [][BatchNext]_vars /\ WF_vars(BatchNext)

FeaturesInit ==
    /\ service = "feature-building"
    /\ FunctionsIdle
    /\ BatchIdle /\ EngineIdle /\ EnsembleIdle /\ DetectorIdle /\ DecisionIdle
    /\ fraud_thresholds = Thresholds(30, 60, 80)

\* the feature building of the fraud detector
SpecFeatures == FeaturesInit /\ [][FeaturesNext]_vars

ExplainInit ==
    /\ service = "explanation"
    /\ FunctionsIdle
    /\ BatchIdle /\ EngineIdle /\ EnsembleIdle /\ DetectorIdle /\ DecisionIdle
    /\ fraud_thresholds = Thresholds(30, 60, 80)

\* the explanations of the engine and of the detector
SpecExplain == ExplainInit /\ [][ExplainNext]_vars

\* the fraud-detection service
Init ==
    /\ service = "fraud-detection"
    /\ EngineInit /\ EnsembleIdle /\ DetectorIdle /\ DecisionIdle /\ BatchIdle
    /\ FunctionsIdle

Spec == Init /\ [][Next]_vars

\* the two ML services: the ensemble classifier of ml-service and the
\* fraud detector of the backend ml-service
ScoringInit ==
    /\ \/ service = "ml-service" /\ EnsembleInit /\ DetectorIdle
       \/ service = "backend-ml-service" /\ DetectorInit /\ EnsembleIdle
    /\ DecisionIdle /\ EngineIdle /\ BatchIdle /\ FunctionsIdle
    /\ fraud_thresholds = Thresholds(30, 60, 80)

ScoringNext ==
    \/ EnsembleNext
    \/ DetectorNext

SpecScoring == ScoringInit /\ [][ScoringNext]_vars

\* the decision functions of the engine and of the detector
DecisionFunctionsInit ==
    /\ service = "decision"
    /\ DecisionInit /\ EnsembleIdle /\ DetectorIdle /\ EngineIdle /\ BatchIdle
    /\ FunctionsIdle

SpecDecision == DecisionFunctionsInit /\ [][DecisionNext]_vars

(***************************************************************************)
(* Properties of the ensemble, the detector and the decision functions     *)
(***************************************************************************)
InUnit(q) == QLe(<<0, 1>>, q) /\ QLe(q, <<One, 1>>)

\* the models of the last predict() that raised
FailedModels == {m \in ModelNames : ~ens_result.outcomes[m].ok}
\* the classifiers of the assessment that raised or were not available
DetectorRaised == {m \in DetectorModelNames : det.manager[m].kind = "raises"}
DetectorRan == det.pc \in {"anomaly", "calibrate", "done"}

\* C1: for every combination of per-model outputs, failed models included,
\* the ensemble probability lies in [0,1], the ensemble confidence in
\* [0.1,1], and the final risk score in [0,100].
C1_ScoresInRange ==
    /\ ens_result.status = "ok" =>
          /\ InUnit(ens_result.probability)
          /\ QLe(<<100, 1>>, ens_result.confidence)
          /\ QLe(ens_result.confidence, <<One, 1>>)
    /\ DetectorRan => InUnit(det.ml_predictions.ensemble_probability)
    /\ det.pc = "done" =>
          /\ QLe(<<0, 1>>, det.risk_assessment.final_score)
          /\ QLe(det.risk_assessment.final_score, <<100, 1>>)

\* a model failed, every other model is undecided (0.5 with confidence 0),
\* and the confidence reported is the floor 0.1
C1_Witness ==
    /\ ens_result.status = "ok"
    /\ FailedModels = {"xgboost"}
    /\ \A m \in ModelNames \ {"xgboost"} : ens_result.model_confidences[m] = 0
    /\ QEq(ens_result.confidence, <<100, 1>>)

Severity(decision) ==
    CASE decision = "APPROVE" -> 0
      [] decision = "MONITOR" -> 1
      [] decision = "REVIEW"  -> 2
      [] decision = "DECLINE" -> 3
DetectorSeverity(decision) ==
    CASE decision = "approve" -> 0
      [] decision = "review"  -> 2
      [] decision = "decline" -> 3

\* C2: for a fixed amount and fixed thresholds, a higher risk score never
\* gets a less severe decision (APPROVE < MONITOR < REVIEW < DECLINE).
C2_DecisionMonotonic ==
    (dec.pc = "decided" /\ dec.a.amount = dec.b.amount
        /\ dec.a.risk_score <= dec.b.risk_score)
    => /\ Severity(dec.a.decision) <= Severity(dec.b.decision)
       /\ DetectorSeverity(dec.a.det_decision) <= DetectorSeverity(dec.b.det_decision)

\* thresholds that are not in ascending order, and two scores of one
\* high-value amount with different decisions
C2_Witness ==
    /\ dec.pc = "decided"
    /\ fraud_thresholds = Thresholds(60, 30, 80)
    /\ dec.a.amount = 1001 /\ dec.b.amount = 1001
    /\ dec.a.risk_score = 23 /\ dec.a.decision = "APPROVE"
    /\ dec.b.risk_score = 24 /\ dec.b.decision = "REVIEW"

\* C3: at the same risk score an amount above 1000 never gets a more
\* lenient decision than an amount of at most 1000.
C3_HighValueNotMoreLenient ==
    (dec.pc = "decided" /\ dec.a.risk_score = dec.b.risk_score
        /\ dec.a.amount > 1000 /\ dec.b.amount <= 1000)
    => Severity(dec.a.decision) >= Severity(dec.b.decision)

\* score 64: DECLINE above the cutoff, REVIEW at the cutoff
C3_Witness ==
    /\ dec.pc = "decided"
    /\ fraud_thresholds = Thresholds(30, 60, 80)
    /\ dec.a.risk_score = 64 /\ dec.b.risk_score = 64
    /\ dec.a.amount = 1001 /\ dec.a.decision = "DECLINE"
    /\ dec.b.amount = 1000 /\ dec.b.decision = "REVIEW"

\* the decision the claim gives: the four bands of the three thresholds,
\* each multiplied by 0.8 above the cutoff
BandDecision(score, amount, t_approve, t_review, t_decline) ==
    LET f == IF amount > 1000 THEN 8 ELSE 10
    IN  IF 10 * score < f * t_approve THEN "APPROVE"
        ELSE IF 10 * score < f * t_review THEN "MONITOR"
        ELSE IF 10 * score < f * t_decline THEN "REVIEW"
        ELSE "DECLINE"

Ordered(thresholds) ==
    thresholds.low <= thresholds.medium /\ thresholds.medium <= thresholds.high

\* the four-band decision in _make_decision, for thresholds in ascending order
C4_EngineBands ==
    (dec.pc = "decided" /\ Ordered(fraud_thresholds))
    => dec.a.decision =
           BandDecision(dec.a.risk_score, dec.a.amount, fraud_thresholds.low,
                        fraud_thresholds.medium, fraud_thresholds.high)

\* C4: the decision is APPROVE below T_approve, MONITOR from T_approve,
\* REVIEW from T_review and DECLINE from T_decline, the thresholds being
\* the configured ones, multiplied by 0.8 when the amount is above 1000.
C4_DecisionBands ==
    /\ C4_EngineBands
    /\ dec.pc = "decided" =>
          dec.a.det_decision =
              EnumValue(BandDecision(dec.a.risk_score, dec.a.amount,
                                     DECISION_THRESHOLDS.approve,
                                     DECISION_THRESHOLDS.review,
                                     DECISION_THRESHOLDS.decline))

LevelRank(level) ==
    CASE level \in {"VERY_LOW", "very_low"} -> 0
      [] level \in {"LOW", "low"}           -> 1
      [] level \in {"MEDIUM", "medium"}     -> 2
      [] level \in {"HIGH", "high"}         -> 3
      [] level \in {"CRITICAL", "critical"} -> 4

\* the bands of RISK_LEVELS a score lies in, the upper end 100 included
BandsOf(score) ==
    {l \in DOMAIN RISK_LEVELS :
        /\ RISK_LEVELS[l][1] <= score
        /\ \/ score < RISK_LEVELS[l][2]
           \/ score = MaxScore /\ RISK_LEVELS[l][2] = MaxScore}

\* C5: the risk-level bands are an ordered partition of 0..100, both ends
\* included: every score lies in exactly one band, which is the level
\* assigned, and the level is non-decreasing in the score.
C5_RiskLevelPartition ==
    dec.pc = "decided" =>
       /\ BandsOf(dec.a.risk_score) = {dec.a.det_risk_level}
       /\ dec.a.risk_score <= dec.b.risk_score =>
             /\ LevelRank(dec.a.det_risk_level) <= LevelRank(dec.b.det_risk_level)
             /\ LevelRank(dec.a.risk_level) <= LevelRank(dec.b.risk_level)

\* the individual predictions the claim gives when models fail: 0.5 for a
\* failed model, its own prediction for every other
ExpectedScores ==
    [m \in DetectorModelNames |->
        IF det.manager[m].kind = "ok" THEN det.manager[m].probability ELSE 500]

\* one failed model in EnsembleClassifier.predict
C6_EnsembleIsolatesFailure ==
    (ens_result.status = "ok" /\ Cardinality(FailedModels) = 1)
    => \A m \in ModelNames :
          IF m \in FailedModels
          THEN /\ ens_result.individual_predictions[m] = 500
               /\ ens_result.model_confidences[m] = 100
          ELSE /\ ens_result.individual_predictions[m]
                      = ModelPrediction(m, ens_result.outcomes[m]).prob
               /\ ens_result.model_confidences[m]
                      = ModelPrediction(m, ens_result.outcomes[m]).conf

\* C6: when exactly one model fails, a full result is still produced, the
\* failed model contributes 0.5 (confidence 0.1) and every other model its
\* own prediction.
C6_OneFailureIsIsolated ==
    /\ C6_EnsembleIsolatesFailure
    /\ (DetectorRan /\ Cardinality(DetectorRaised) = 1
           /\ \A m \in DetectorModelNames : det.manager[m].kind # "unavailable")
       => /\ det.ml_predictions.individual_scores = ExpectedScores
          /\ QEq(det.ml_predictions.ensemble_probability,
                 _calculate_ensemble_probability(ExpectedScores, ENSEMBLE_WEIGHTS))

\* sum(w * p) / sum(w) with the default weight for the models without a
\* configured one, and the unweighted mean when the total weight is zero
WeightedMean(p, weights, default) ==
    LET names == Keys(p)
        w == [m \in DOMAIN p |-> IF m \in DOMAIN weights THEN weights[m] ELSE default]
        total == Sum(w, names)
    IN  IF total = 0 THEN <<Sum(p, names), Len(names)>>
        ELSE <<Sum([m \in DOMAIN p |-> w[m] * p[m]], names), total>>

EnsembleMeanWith(default) ==
    ens_result.status = "ok" =>
        QEq(ens_result.probability,
            WeightedMean(ens_result.individual_predictions, model_weights, default))
DetectorMeanWith(default) ==
    DetectorRan =>
        QEq(det.ml_predictions.ensemble_probability,
            IF DOMAIN det.ml_predictions.individual_scores = {} THEN <<100, 1>>
            ELSE WeightedMean(det.ml_predictions.individual_scores,
                              ENSEMBLE_WEIGHTS, default))

\* C7 as claimed: the ensemble probability is sum(w * p) / sum(w) with the
\* weight 0.25 for a model without a configured weight, for any weights,
\* and the unweighted mean when the total weight is zero.
C7_WeightedMeanDefaultQuarter ==
    EnsembleMeanWith(25) /\ DetectorMeanWith(25)

\* C7 as amended: the weight of a model without a configured weight is 0.25
\* in FraudDetector and 0.1 in EnsembleClassifier; FraudDetector reports
\* 0.1 when its result holds no individual score.
C7_WeightedMean ==
    EnsembleMeanWith(10) /\ DetectorMeanWith(25)

\* two models without a configured weight, classifiers that disagree, and a
\* probability that the default weight 0.1 gives and 0.25 does not
C7_Witness ==
    /\ ens_result.status = "ok"
    /\ DOMAIN model_weights = {"random_forest", "xgboost"}
    /\ FailedModels = {}
    /\ ens_result.individual_predictions["random_forest"] = 1000
    /\ ens_result.individual_predictions["xgboost"] = 0
    /\ ens_result.individual_predictions["neural_network"] = 1000
    /\ QEq(ens_result.probability,
           WeightedMean(ens_result.individual_predictions, model_weights, 10))
    /\ ~QEq(ens_result.probability,
            WeightedMean(ens_result.individual_predictions, model_weights, 25))

(***************************************************************************)
(* Properties of the assessment cache                                      *)
(***************************************************************************)
\* the requests that asked the cache
AskedCache == {r \in Reqs : reqs[r].cache_read # "none"}
\* the assessments stored under the fingerprint of request r before r was
\* made and still within their TTL when r was made
LiveStores(r) ==
    {i \in 1..reqs[r].made_len :
        /\ computed[i].stored
        /\ computed[i].key = _get_cache_key(reqs[r].tx)
        /\ reqs[r].made_time < computed[i].at + FEATURE_CACHE_TTL}

\* the assessments stored under the fingerprint of request r whose TTL had
\* elapsed when r was made
ExpiredStores(r) ==
    {i \in 1..reqs[r].made_len :
        /\ computed[i].stored
        /\ computed[i].key = _get_cache_key(reqs[r].tx)
        /\ reqs[r].made_time >= computed[i].at + FEATURE_CACHE_TTL}

\* C8: after an assessment A has been stored under a fingerprint, every
\* request with that fingerprint made before the TTL elapses returns A
\* unchanged; a request made after the TTL has expired, with no store in
\* between, finds no entry and is computed afresh.
C8_CacheRoundTrip ==
    \A r \in AskedCache :
        /\ \A i \in LiveStores(r) :
              /\ reqs[r].outcome = "cached"
              /\ reqs[r].result = computed[i].value
        /\ (LiveStores(r) = {} /\ ExpiredStores(r) # {})
              => reqs[r].cache_read = "miss"

\* C9: for any interleaving of concurrent requests, at most one freshly
\* computed assessment per fingerprint is produced within one TTL window.
C9_OneFreshPerWindow ==
    \A i, j \in 1..Len(computed) :
        (i < j /\ computed[i].stored /\ computed[i].key = computed[j].key)
        => computed[j].at >= computed[i].at + FEATURE_CACHE_TTL

\* C10: a failed cache read (the store is unavailable, or the value cannot
\* be deserialized) is treated as a cache miss: the assessment goes on to
\* the full computation and the read raises no error to the caller.
C10_ReadFailureIsMiss ==
    \A r \in Reqs :
        reqs[r].cache_read \in {"unavailable", "corrupt"}
        => /\ reqs[r].pc # "idle"
           /\ reqs[r].error # "cache_service.get"

(***************************************************************************)
(* Properties of the engine's failure handling                             *)
(***************************************************************************)
\* the step is the end of an assessment whose cache write failed
FailedWriteStep ==
    /\ Len(computed') = Len(computed) + 1
    /\ ~computed'[Len(computed')].stored

\* C11: a failed cache write at the end of an assessment is swallowed: the
\* call returns the freshly computed assessment, the metrics are updated,
\* and the cache gets no new entry.
C11_FailedWriteSwallowed ==
    [][FailedWriteStep =>
          /\ cache' = cache
          /\ assessment_count' = assessment_count + 1
          /\ \E r \in Reqs :
                /\ reqs[r].pc = "cache_result"
                /\ reqs'[r].pc = "done"
                /\ reqs'[r].outcome = "fresh"
                /\ reqs'[r].result = reqs[r].result
                /\ reqs'[r].result = computed'[Len(computed')].value]_vars

\* a call has returned its fresh assessment, the write failed, the cache
\* holds nothing under the fingerprint and the assessment was counted
C11_Witness ==
    \E r \in Reqs :
        /\ reqs[r].outcome = "fresh"
        /\ Len(computed) = 1
        /\ ~computed[1].stored
        /\ computed[1].value = reqs[r].result
        /\ cache[_get_cache_key(reqs[r].tx)] = NoEntry
        /\ assessment_count = 1

\* the calls that the failure of one collaborator has ended
AbortedBy(error) == {r \in Reqs : reqs[r].pc = "failed" /\ reqs[r].error = error}

\* FraudDetector after a failed behavioral analysis: the default result
C12_DetectorDefault ==
    (det.pc \in {"ensemble", "anomaly", "calibrate", "done"}
        /\ "analysis_failed" \in
               {det.behavioral_result.anomaly_indicators[i] :
                    i \in DOMAIN det.behavioral_result.anomaly_indicators})
    => det.behavioral_result = BehavioralDefault(<<"analysis_failed">>, FALSE)

\* C12: a failure of the behavioral analysis never aborts the assessment;
\* the behavioral result is replaced by the default with composite score 50
\* and the indicator analysis_failed.
C12_BehavioralFailureDefault ==
    /\ AbortedBy("behavioral_analyzer.analyze") = {}
    /\ C12_DetectorDefault

\* p * 40 + b * 0.4 + a * 0.2 clamped to [0,100], for a probability p given
\* in thousandths as a fraction, as a fraction of points
ClampedBlend(p, b, a) ==
    LET n == 2 * p[1] + (20 * b + 10 * a) * p[2]
        d == 50 * p[2]
    IN  IF n < 0 THEN <<0, 1>>
        ELSE IF n > 100 * d THEN <<100, 1>>
        ELSE <<n, d>>

\* FraudDetector after a failed calibration: the fallback blend
C13_DetectorFallback ==
    (det.pc = "done" /\ ~det.calibrator_ok)
    => /\ det.risk_assessment.final_score
              = ClampedBlend(det.ml_predictions.ensemble_probability,
                             det.behavioral_result.composite_score,
                             det.anomaly_score)
       /\ det.risk_assessment.confidence = 700
       /\ det.risk_assessment.calibration_factors = <<"fallback_calculation">>

\* C13: a failure of the risk calibrator never propagates past the
\* calibration step; the final score is then ensemble_probability * 40 +
\* behavioral_score * 0.4 + anomaly_score * 0.2 clamped to [0,100], with
\* confidence 0.7 and the flag fallback_calculation.
C13_CalibratorFailureFallback ==
    /\ AbortedBy("risk_calibrator.calibrate_score") = {}
    /\ C13_DetectorFallback

(***************************************************************************)
(* Properties of cancelled and timed out assessments                       *)
(***************************************************************************)
\* the step in which call r is cancelled
CancelledNow(r) == reqs[r].pc # "cancelled" /\ reqs'[r].pc = "cancelled"

\* the cache entry holds the complete assessment `result`
HoldsWhole(entry, result) ==
    /\ result # NoResult
    /\ result.transaction_id # ""
    /\ parse_raw(entry.data).ok
    /\ parse_raw(entry.data).value = result

\* C16: the cancellation of an assessment in flight, at whatever await it
\* is suspended in, leaves every cache entry as it was or leaves under the
\* key of the call one complete assessment, the result the call had
\* constructed; a call cancelled before its result was constructed leaves
\* the cache as it was.
C16_CancelKeepsCacheWhole ==
    [][\A r \in Reqs :
          CancelledNow(r) =>
              /\ \A k \in DOMAIN cache :
                    \/ cache'[k] = cache[k]
                    \/ /\ k = _get_cache_key(reqs[r].tx)
                       /\ HoldsWhole(cache'[k], reqs[r].result)
              /\ reqs[r].result = NoResult => cache' = cache]_vars

\* one call was cancelled before its result was constructed, another while
\* it wrote its result, which the cache holds whole
C16_Witness ==
    \E r1 \in Reqs, r2 \in Reqs :
        /\ reqs[r1].outcome = "cancelled"
        /\ reqs[r1].error = "ml_client.predict_fraud"
        /\ reqs[r1].result = NoResult
        /\ reqs[r2].outcome = "cancelled"
        /\ reqs[r2].error = "cache_service.set"
        /\ HoldsWhole(cache[_get_cache_key(reqs[r2].tx)], reqs[r2].result)

\* the calls in which external call `call` ran into its timeout
TimedOutIn(call) == {r \in Reqs : reqs[r].timed_out = call}

\* when the model inference times out the assessment goes on with the
\* fallback predictions
C17_MlTimeoutFallsBack ==
    \A r \in TimedOutIn("ml_client.predict_fraud") :
        /\ reqs[r].ml_predictions = MlFallback
        /\ ~(reqs[r].pc = "failed" /\ reqs[r].error = "ml_client.predict_fraud")

\* C17: an assessment whose model inference, behavioral provider or cache
\* did not answer within its timeout is not ended by that timeout: it goes
\* on with the fallback values of that call.
C17_TimeoutFallsBack ==
    /\ C17_MlTimeoutFallsBack
    /\ \A r \in Reqs :
          reqs[r].timed_out # "none" =>
              ~(reqs[r].pc = "failed" /\ reqs[r].error = reqs[r].timed_out)

(***************************************************************************)
(* Properties of the result and of the cache key                           *)
(***************************************************************************)
\* the calls that scored their transaction: the cache gave no assessment
\* and the result was constructed
Scored == {r \in Reqs : reqs[r].cache_read # "hit" /\ reqs[r].result # NoResult}

\* two scorings of the same transaction with the same outputs of the
\* feature extraction, the behavioral analysis, the models and the
\* calibration
SameScoring(r1, r2) ==
    /\ r1 \in Scored /\ r2 \in Scored /\ r1 # r2
    /\ reqs[r1].tx = reqs[r2].tx
    /\ reqs[r1].features = reqs[r2].features
    /\ reqs[r1].behavioral_score = reqs[r2].behavioral_score
    /\ reqs[r1].ml_predictions = reqs[r2].ml_predictions
    /\ reqs[r1].result.risk_score = reqs[r2].result.risk_score

WithoutTimes(result) == [result EXCEPT !.timestamp = 0, !.processing_time_ms = 0]
WithoutTimesAndId(result) == [WithoutTimes(result) EXCEPT !.assessment_id = <<"", 0>>]

Nearest10(amount) == ((amount + 5) \div 10) * 10

\* the calls that reached the cache
Keyed == {r \in Reqs : reqs[r].tx # NoTx}

\* C19: the cache key depends only on the customer id and the amount
\* rounded to the nearest 10: two transactions get the same key exactly
\* when they have the same customer id and the same rounded amount.
C19_KeyIsCustomerAndNearest10 ==
    \A r1 \in Keyed, r2 \in Keyed :
        (_get_cache_key(reqs[r1].tx) = _get_cache_key(reqs[r2].tx))
            <=> /\ reqs[r1].tx.customer_id = reqs[r2].tx.customer_id
                /\ Nearest10(reqs[r1].tx.amount) = Nearest10(reqs[r2].tx.amount)

\* the two evaluations of the decision functions, once made
Evaluated == IF dec.pc = "decided" THEN {dec.a, dec.b} ELSE {}

Clamp01(x) == Max(0, Min(One, x))

\* the decision value the isolation forest of the ensemble returned and
\* the fraud probability predict() made of it
EnsembleAnomalyRan ==
    ens_result.status = "ok" /\ ens_result.outcomes["isolation_forest"].ok
EnsembleRaw == ens_result.outcomes["isolation_forest"].score
EnsembleLikelihood == ens_result.individual_predictions["isolation_forest"]

\* the decision value the isolation forest of the detector returned and
\* the anomaly score _detect_anomalies made of it, in thousandths of 100
DetectorAnomalyRan == det.pc \in {"calibrate", "done"} /\ det.anomaly.ok
DetectorLikelihood == 10 * det.anomaly_score

\* C21 as stated: the raw decision value r is remapped to the fraud
\* likelihood clamp((0.5 - r) / 2, 0, 1).
C21_RemapHalfMinusRawHalved ==
    /\ EnsembleAnomalyRan
          => EnsembleLikelihood = Clamp01((500 - EnsembleRaw) \div 2)
    /\ DetectorAnomalyRan
          => DetectorLikelihood = Clamp01((500 - det.anomaly.raw) \div 2)

\* C21 amended: EnsembleClassifier.predict remaps r to clamp((1 - r) / 2, 0, 1)
\* and FraudDetector._detect_anomalies to clamp((0.5 - r) * 100, 0, 100);
\* both lie in their range and do not increase with r: no lower decision
\* value would have given a lower likelihood.
C21_AnomalyRemap ==
    /\ EnsembleAnomalyRan =>
          /\ EnsembleLikelihood \in 0..One
          /\ EnsembleLikelihood = Clamp01((One - EnsembleRaw) \div 2)
          /\ \A r \in RawAnomalyLevels :
                r <= EnsembleRaw =>
                    ModelPrediction("isolation_forest",
                                    [ok |-> TRUE, proba |-> <<>>, score |-> r]).prob
                        >= EnsembleLikelihood
    /\ DetectorAnomalyRan =>
          /\ det.anomaly_score \in 0..100
          /\ DetectorLikelihood = Clamp01(500 - det.anomaly.raw)
          /\ \A r \in RawDecisionLevels :
                r <= det.anomaly.raw =>
                    _detect_anomalies([ok |-> TRUE, raw |-> r]) >= det.anomaly_score

\* the ensemble made the fraud probability 0.75 of the decision value -0.5
C21_Witness ==
    /\ EnsembleAnomalyRan
    /\ EnsembleRaw = -500
    /\ EnsembleLikelihood = 750

\* the position of feature f in the feature array
RECURSIVE IndexOf(_, _)
IndexOf(f, names) == IF Head(names) = f THEN 1 ELSE 1 + IndexOf(f, Tail(names))
ArrayValue(f) == feat.feature_array[IndexOf(f, expected_features)]
DerivedNames == {DerivedFeatures[i] : i \in 1..Len(DerivedFeatures)}

\* a failure among the derived features never ends the assessment: only an
\* exception of the feature store does, and otherwise the features are kept
\* up to the first statement that raised
C22_DerivedNeverAborts ==
    /\ feat.pc = "failed" => feat.features = <<>>
    /\ feat.pc = "prepared" =>
          \A i \in 1..Len(DerivedFeatures) :
              (\A j \in 1..i : ~DerivedRaises(DerivedFeatures[j], feat.transaction_data))
                  => ArrayValue(DerivedFeatures[i])
                         = DerivedValue(DerivedFeatures[i], feat.transaction_data)

\* C22: when the computation of a derived feature raises, only that
\* feature is omitted and is 0.0 in the feature vector; every derived
\* feature whose computation does not raise is there with its value.
C22_OnlyRaisingFeatureOmitted ==
    feat.pc = "prepared" =>
        \A f \in DerivedNames :
            IF DerivedRaises(f, feat.transaction_data)
            THEN f \notin DOMAIN feat.features /\ ArrayValue(f) = 0
            ELSE /\ f \in DOMAIN feat.features
                 /\ ArrayValue(f) = DerivedValue(f, feat.transaction_data)

\* the risk factors of the engine were generated
EngineExplained == expl.pc \in {"factors", "actions"}
\* the explanation of the detector was generated
DetectorExplained == expl.pc = "explained"

\* the signals of the detector that cross their threshold, each with the
\* name of its factor and its value in tenths of a point
DetectorCandidates ==
    {[factor |-> "high_" \o m \o "_score", score |-> expl.individual_scores[m]] :
        m \in {n \in DOMAIN expl.individual_scores : expl.individual_scores[n] > 700}}
    \cup {[factor |-> expl.behavioral_result.anomaly_indicators[i],
           score |-> 10 * expl.behavioral_result.composite_score] :
             i \in {j \in DOMAIN expl.behavioral_result.anomaly_indicators :
                       expl.behavioral_result.composite_score > 70}}
    \cup {[factor |-> "transaction_anomaly", score |-> 10 * expl.anomaly_score] :
             x \in {y \in {1} : expl.anomaly_score > 70}}
CandidateScore(factor) ==
    (CHOOSE c \in DetectorCandidates : c.factor = factor).score
Reported == {expl.primary_risk_factors[i] : i \in DOMAIN expl.primary_risk_factors}

\* the risk factors of the engine are sorted by non-increasing score and
\* are at most 10, and the primary risk factors of the detector at most 5
C23_EngineSortedTopTen ==
    /\ EngineExplained =>
          /\ Len(expl.risk_factors) <= 10
          /\ \A i \in DOMAIN expl.risk_factors, j \in DOMAIN expl.risk_factors :
                i < j => expl.risk_factors[i].score >= expl.risk_factors[j].score
    /\ DetectorExplained => Len(expl.primary_risk_factors) <= 5

\* C23: the risk factors of every assessment are sorted by non-increasing
\* score and are at most 10, at most 5 in the explanation of the detector,
\* and no omitted factor has a higher score than a reported one.
C23_SortedTopFactors ==
    /\ C23_EngineSortedTopTen
    /\ DetectorExplained =>
          /\ \A i \in DOMAIN expl.primary_risk_factors,
                j \in DOMAIN expl.primary_risk_factors :
                i < j => CandidateScore(expl.primary_risk_factors[i])
                             >= CandidateScore(expl.primary_risk_factors[j])
          /\ \A c \in DetectorCandidates :
                c.factor \notin Reported =>
                    \A f \in Reported : CandidateScore(f) >= c.score

\* the names of the risk factors the engine reported
EngineFactors == {expl.risk_factors[i].factor : i \in DOMAIN expl.risk_factors}

\* the detector reports a signal only when it is above its threshold: a
\* probability above 0.7, the behavioral indicators when the composite
\* score is above 70, the anomaly when the anomaly score is above 70
C24_DetectorThresholds ==
    DetectorExplained =>
        /\ \A m \in DOMAIN expl.individual_scores :
              ("high_" \o m \o "_score") \in Reported
                  => expl.individual_scores[m] > 700
        /\ \A i \in DOMAIN expl.behavioral_result.anomaly_indicators :
              expl.behavioral_result.anomaly_indicators[i] \in Reported
                  => expl.behavioral_result.composite_score > 70
        /\ "transaction_anomaly" \in Reported => expl.anomaly_score > 70

\* C24 as stated: a probability is reported only when it is above 0.7,
\* the behavioral score only when it is above 70 and the anomaly score
\* only when it is above 70, by the engine and by the detector.
C24_NotableAboveSeventy ==
    /\ C24_DetectorThresholds
    /\ EngineExplained =>
          /\ "behavioral_anomaly" \in EngineFactors => expl.behavioral_score > 70
          /\ \A m \in DOMAIN expl.individual_predictions :
                ("ml_model_" \o m) \in EngineFactors
                    => expl.individual_predictions[m] > 700

\* C24 amended: the detector reports above 0.7, 70 and 70; the engine
\* reports the behavioral score exactly when it is above 50, a prediction
\* above 0.5, and the geographic, device and email risks above 30, 40, 50.
C24_NotableThresholds ==
    /\ C24_DetectorThresholds
    /\ EngineExplained =>
          /\ "behavioral_anomaly" \in EngineFactors <=> expl.behavioral_score > 50
          /\ \A m \in DOMAIN expl.individual_predictions :
                ("ml_model_" \o m) \in EngineFactors
                    <=> expl.individual_predictions[m] > 500
          /\ "geographic_risk" \in EngineFactors
                <=> Get(expl.features, "geo_risk_score", 0) > 300
          /\ "device_risk" \in EngineFactors
                <=> Get(expl.features, "device_risk_score", 0) > 400
          /\ "email_risk" \in EngineFactors
                <=> Get(expl.features, "email_risk_score", 0) > 500

\* the engine reported a behavioral score of 51 and a prediction of 0.6
\* and left out a prediction of 0.5 and a geographic risk of 30
C24_Witness ==
    /\ EngineExplained
    /\ expl.behavioral_score = 51
    /\ expl.individual_predictions
           = [m \in {"random_forest", "xgboost"} |->
                 IF m = "xgboost" THEN 600 ELSE 500]
    /\ expl.features = [geo_risk_score |-> 300]
    /\ EngineFactors = {"behavioral_anomaly", "ml_model_xgboost"}

\* the fixed actions of a decision, in the order of the source
FixedActions(decision) ==
    CASE decision = "DECLINE" ->
             <<"Decline transaction immediately", "Add customer to watchlist",
               "Review for potential fraud ring activity">>
      [] decision = "REVIEW" ->
             <<"Hold for manual review", "Contact customer for verification",
               "Request additional authentication">>
      [] decision = "MONITOR" ->
             <<"Allow transaction but monitor closely",
               "Flag for next transaction review", "Track behavioral patterns">>
      [] OTHER -> <<"Approve transaction">>

\* the actions of the first n risk factors, in their order
RECURSIVE FactorActions(_, _)
FactorActions(risk_factors, n) ==
    IF n = 0 THEN <<>>
    ELSE FactorActions(risk_factors, n - 1)
         \o (IF FactorAction(risk_factors[n]) = {} THEN <<>>
             ELSE <<CHOOSE a \in FactorAction(risk_factors[n]) : TRUE>>)

ActionsMade == expl.pc = "actions"
Elements(list) == {list[i] : i \in DOMAIN list}
ExpectedActions ==
    FixedActions(expl.decision)
    \o FactorActions(expl.risk_factors, Min(3, Len(expl.risk_factors)))

\* the recommended actions hold, each once, the fixed actions of the
\* decision and the actions of the top 3 risk factors, at most 3
C25_ActionsWithoutDuplicates ==
    ActionsMade =>
        /\ Elements(expl.recommended_actions) = Elements(ExpectedActions)
        /\ Len(expl.recommended_actions)
               = Cardinality(Elements(expl.recommended_actions))
        /\ Len(expl.recommended_actions) <= Len(FixedActions(expl.decision)) + 3

\* C25: the recommended actions are the fixed actions of the decision,
\* first, followed by the actions of the top 3 risk factors, without
\* duplicates: a list that the decision and the risk factors determine.
C25_ActionsInOrder ==
    ActionsMade => expl.recommended_actions = ExpectedActions

(***************************************************************************)
(* Properties of the assessments the engine returns                        *)
(***************************************************************************)
\* the calls that returned an assessment, freshly computed or cached
ReturnedCalls == {r \in Reqs : reqs[r].pc = "done"}

\* a freshly computed assessment for an amount above 1000 has the decision
\* of the tightened thresholds
C26_FreshHighValueTightened ==
    \A r \in ReturnedCalls :
        (reqs[r].outcome = "fresh" /\ reqs[r].tx.amount > 1000) =>
            reqs[r].result.decision
                = _make_decision(reqs[r].result.risk_score, reqs[r].tx.amount,
                                 fraud_thresholds)

\* C26: an assessment returned for an amount above 1000, freshly computed
\* or served from the cache, has a decision at least as severe as the one
\* the tightened thresholds give for its risk score.
C26_HighValueNeverMoreLenient ==
    \A r \in ReturnedCalls :
        reqs[r].tx.amount > 1000 =>
            Severity(reqs[r].result.decision)
                >= Severity(_make_decision(reqs[r].result.risk_score,
                                           reqs[r].tx.amount, fraud_thresholds))

\* the customers of the transactions with this transaction id
CustomersOf(transaction_id) ==
    {tx.customer_id : tx \in {t \in Txs : t.transaction_id = transaction_id}}

\* a freshly computed assessment has the transaction id of the request,
\* and a cached one was computed for a transaction of the same customer
C27_SameCustomer ==
    \A r \in ReturnedCalls :
        /\ reqs[r].outcome = "fresh"
              => reqs[r].result.transaction_id = reqs[r].tx.transaction_id
        /\ CustomersOf(reqs[r].result.transaction_id) = {reqs[r].tx.customer_id}

\* C27: every assessment that assess_transaction returns, one served from
\* the cache included, has the transaction id of the transaction in the
\* request, and was computed for a transaction of the same customer.
C27_ResultOfTheRequest ==
    /\ C27_SameCustomer
    /\ \A r \in ReturnedCalls :
          reqs[r].result.transaction_id = reqs[r].tx.transaction_id

(***************************************************************************)
(* Properties of the batch endpoint                                        *)
(***************************************************************************)
Returned == {i \in BatchItems : batch.task[i] = "returned"}
Raised == {i \in BatchItems : batch.task[i] = "raised"}
InFlight == {i \in BatchItems : batch.task[i] = "running"}
Increasing(ids) == \A k, l \in DOMAIN ids : k < l => ids[k] < ids[l]

\* C14: a batch isolates the failures of its items and keeps the input
\* order: failed items never fail the batch, every transaction is reported
\* exactly once, as a result in input order or as an error with its own
\* transaction id, and successful + failed = total.
C14_BatchIsolatesFailures ==
    /\ batch.pc = "rejected" => Returned \cup Raised = {}
    /\ batch.pc = "done" =>
          LET results == [k \in DOMAIN batch.response.results |->
                             batch.response.results[k].item]
              errors == [k \in DOMAIN batch.response.errors |->
                            batch.response.errors[k].transaction_id]
          IN  /\ batch.status = 200
              /\ Increasing(results) /\ Increasing(errors)
              /\ {results[k] : k \in DOMAIN results} = Returned
              /\ {errors[k] : k \in DOMAIN errors} = Raised
              /\ Returned \cup Raised = 1..batch.size
              /\ batch.response.total_transactions = batch.size
              /\ batch.response.successful_assessments = Len(results)
              /\ batch.response.failed_assessments = Len(errors)
              /\ batch.response.successful_assessments
                     + batch.response.failed_assessments
                     = batch.response.total_transactions

\* a served batch whose first and last transactions failed and whose
\* second one succeeded
C14_Witness ==
    /\ batch.pc = "done"
    /\ batch.size = MaxBatch
    /\ batch.task[1] = "raised" /\ batch.task[2] = "returned"
    /\ batch.task[MaxBatch] = "raised"
    /\ batch.response.results[1] = [item |-> 2]
    /\ batch.response.failed_assessments >= 2

\* C15: during a batch at most 10 assessments are in flight at any moment,
\* however the assessments interleave, and every transaction of the batch
\* is eventually assessed.
C15_AtMostTenInFlight ==
    /\ [](Cardinality(InFlight) <= 10)
    /\ (batch.pc = "gather") ~> (Returned \cup Raised = 1..batch.size)

\* ten assessments in flight and a transaction waiting for the semaphore
C15_Witness ==
    /\ batch.pc = "gather"
    /\ Cardinality(InFlight) = 10
    /\ batch.value = 0
    /\ \E i \in 1..batch.size : batch.task[i] = "waiting"

\* C28: every successful assessment handed to _store_batch_assessments is
\* paired, position by position, with the transaction it was computed for,
\* also when a transaction earlier in the batch failed.
C28_StoredWithOwnTransaction ==
    batch.pc = "done" =>
        /\ Len(batch.stored.transaction_data_list)
               = Len(batch.stored.assessment_results)
        /\ \A k \in DOMAIN batch.stored.assessment_results :
              batch.stored.transaction_data_list[k]
                  = batch.stored.assessment_results[k].item

(***************************************************************************)
(* Properties of the engine's cache hits, metrics and initialization       *)
(***************************************************************************)
\* the step is a call of assess_transaction() that returns a cached assessment
CacheHitStep(r) == reqs[r].pc = "idle" /\ reqs'[r].outcome = "cached"

\* the calls that return a freshly computed assessment in the step
FreshReturned == {r \in Reqs : reqs[r].outcome # "fresh" /\ reqs'[r].outcome = "fresh"}

\* the calls that fail in the step
FailedInStep == {r \in Reqs : reqs[r].pc # "failed" /\ reqs'[r].pc = "failed"}

\* C29: a cache hit runs no feature extraction, behavioral analysis, model
\* inference or calibration (the call returns in the step that read the
\* cache and holds no output of a collaborator), writes nothing to the
\* cache, so the entry's expiry stays, and leaves assessment_count and
\* total_processing_time unchanged; assessment_count grows by exactly one
\* for each freshly computed assessment that is returned and by zero for a
\* failed call.
C29_HitLeavesEngineAlone ==
    [][(/\ \A r \in Reqs :
              CacheHitStep(r) =>
                  /\ reqs'[r].pc = "done"
                  /\ UNCHANGED <<cache, assessment_count, total_processing_time,
                                 computed>>
        /\ \A r \in Reqs :
              reqs'[r].outcome = "cached" =>
                  /\ reqs'[r].pc = "done"
                  /\ reqs'[r].features = NoCall.features
                  /\ reqs'[r].behavioral_score = NoCall.behavioral_score
                  /\ reqs'[r].ml_predictions = NoCall.ml_predictions
        /\ assessment_count' = assessment_count + Cardinality(FreshReturned)
        /\ (FreshReturned = {}) => (total_processing_time' = total_processing_time)
        /\ (FailedInStep # {}) => (assessment_count' = assessment_count))]_vars

\* one assessment took time and was cached, and a later call was served from
\* the cache: the entry still expires one time to live after it was written,
\* and the metrics count the computed assessment only
C29_Witness ==
    \E r1, r2 \in Reqs :
        /\ reqs[r1].outcome = "fresh"
        /\ reqs[r2].outcome = "cached"
        /\ reqs[r2].made_time > computed[1].at
        /\ reqs[r2].result = reqs[r1].result
        /\ Len(computed) = 1
        /\ cache[_get_cache_key(reqs[r2].tx)].expires_at
               = computed[1].at + FEATURE_CACHE_TTL
        /\ assessment_count = 1
        /\ total_processing_time > 0
        /\ total_processing_time = reqs[r1].result.processing_time_ms \div 1000

\* the calls that assess_transaction() refused: the engine was not initialized
Refused == {r \in Reqs : reqs[r].pc = "failed" /\ reqs[r].error = "not_initialized"}

\* the calls that are made in the step
MadeInStep == {r \in Reqs : reqs[r].pc = "idle" /\ reqs'[r].pc # "idle"}

\* the flag is set only when all four collaborators have initialized and the
\* last initialize() raised nothing, and only refused calls were made before
C30_InitializedState ==
    /\ is_initialized =>
          /\ startup.initialized
                 = {Collaborators[i] : i \in 1..Len(Collaborators)}
          /\ startup.raised = "none"
    /\ startup.raised # "none" => ~is_initialized
    /\ ~is_initialized => \A r \in Reqs : reqs[r].pc = "idle" \/ r \in Refused
    /\ \A r \in Refused :
          /\ reqs[r].cache_read = "none"
          /\ reqs[r].features = NoCall.features
          /\ reqs[r].behavioral_score = NoCall.behavioral_score
          /\ reqs[r].ml_predictions = NoCall.ml_predictions
          /\ reqs[r].result = NoResult

\* a call on an engine that is not initialized is refused, and the refusal
\* leaves the cache, the collaborators and the metrics as they are
C30_RefusalStep ==
    \A r \in MadeInStep :
        /\ ~is_initialized => r \in {q \in Reqs : reqs'[q].pc = "failed"
                                       /\ reqs'[q].error = "not_initialized"}
        /\ (reqs'[r].error = "not_initialized") =>
              /\ ~is_initialized
              /\ UNCHANGED <<is_initialized, ml_client, startup, cache,
                             assessment_count, total_processing_time, computed>>

\* C30: the engine accepts assessments only after a successful initialize():
\* is_initialized is true only when the ML client, the feature engineer, the
\* behavioral analyzer and the risk calibrator have all initialized, a
\* failed initialize() leaves it false and raises, and assess_transaction on
\* an engine that is not initialized raises without touching the cache, a
\* collaborator or the metrics.
C30_OnlyAfterInitialize == []C30_InitializedState /\ [][C30_RefusalStep]_vars

\* initialize() failed in its last step, the risk calibrator, and a call
\* made on the engine was refused: the flag is false, the cache and the
\* metrics are as they were
C30_Witness ==
    /\ ~is_initialized
    /\ startup.raised = "risk_calibrator"
    /\ startup.initialized = {"ml_client", "feature_engineer", "behavioral_analyzer"}
    /\ Refused # {}
    /\ \A k \in CacheKeys : cache[k] = NoEntry
    /\ assessment_count = 0
    /\ total_processing_time = 0

\* EnsembleClassifier.predict before is_ready raises and leaves the
\* classifier's counters as they are; is_ready is set by initialize() alone
C30_EnsembleNotReady ==
    [][/\ (~is_ready /\ ens_result' # ens_result) =>
             /\ ens_result' = [NoEnsembleResult EXCEPT !.status = "error"]
             /\ UNCHANGED <<is_ready, model_weights, prediction_count>>
       /\ (ens_result'.status = "ok" /\ ens_result' # ens_result) => is_ready]_vars

====
